---- MODULE Spec2Model ----
(***************************************************************************)
(* Model of the connection manager of the dispatch router                  *)
(* (src/src/connection_manager.c): failover-url serialization, resolution  *)
(* of the server configuration, and the start/delete lifecycle of          *)
(* listeners and connectors.                                               *)
(***************************************************************************)
EXTENDS Integers, Sequences, FiniteSets, TLC

(***************************************************************************)
(* Bounds of the model.                                                    *)
(***************************************************************************)
MaxItems == 3
MaxListeners == 1
MaxConnectors == 1
MaxConnections == 1

\* A null char* .  No scheme or host:port of the model is spelled like this.
NULL == "<null>"

\* Where a string is read piece by piece (a password directive, a list of
\* mechanisms or of log components) it is the sequence of its pieces, the
\* empty string the empty sequence, and a null char* is NoString.
NoString == <<NULL>>

VARIABLES
    conn_info_list,   \* ct->conn_info_list: the failover items of a connector
    conn_index,       \* ct->conn_index: 1-based position of the current item
    failoverUrls,     \* the entity attribute written by the refresh
    size_t_bytes,     \* sizeof(size_t) of the build
    ndebug,           \* TRUE when the build compiles assert() out
    entity,           \* the entity given to the last load_server_config
    config,           \* the qd_server_config_t it filled
    cfg_status,       \* "none", "ok", "error" (qd_error_code set) or "abort"
    trunc_warning,    \* frame count of the truncation warning, -1 if none
    listeners,        \* cm->listeners: the handles in the collection, in order
    li,               \* the qd_listener_t objects created so far, by handle
    connectors,       \* cm->connectors: the handles in the collection, in order
    ct,               \* the qd_connector_t objects created so far, by handle
    ct_lock,          \* ct->lock of each connector: its holder, "" if free
    cx,               \* the qd_connection_t contexts created so far
    first_start,      \* the static flag of qd_connection_manager_start
    proc,             \* "running", "exited" (exit(1)) or "crashed"
    mgmt_pc,          \* where the management thread is in delete_connector
    impl,             \* the handle given to the delete_connector under way
    last_start,       \* the listeners whose listen failed in the last start()
    mem,              \* the heap strings allocated so far, by address
    sslp,             \* the qd_config_ssl_profile_t objects created so far
    config_ssl_profiles,  \* cm->config_ssl_profiles: handles, in order
    saslp,            \* the qd_config_sasl_plugin_t objects created so far
    config_sasl_plugins,  \* cm->config_sasl_plugins: handles, in order
    configs,          \* the profile part of the config of each endpoint made
    log_message,      \* config->log_message given to populate_log_message
    log_bits,         \* config->log_bits, -1 before the first call
    log_enabled       \* the last is_log_component_enabled call: <<name, result>>

fo_vars  == <<conn_info_list, conn_index, failoverUrls>>
reg_vars == <<mem, sslp, config_ssl_profiles, saslp, config_sasl_plugins,
              configs>>
log_vars == <<log_message, log_bits, log_enabled>>
cfg_vars == <<size_t_bytes, ndebug, entity, config, cfg_status, trunc_warning,
              reg_vars, log_vars>>
li_vars  == <<listeners, li, first_start, last_start>>
ct_vars  == <<connectors, ct, ct_lock, cx, mgmt_pc, impl>>

vars == <<conn_info_list, conn_index, failoverUrls,
          size_t_bytes, ndebug, entity, config, cfg_status, trunc_warning,
          listeners, li, connectors, ct, ct_lock, cx, first_start, proc,
          mgmt_pc, impl, last_start,
          mem, sslp, config_ssl_profiles, saslp, config_sasl_plugins,
          configs, log_message, log_bits, log_enabled>>

Range(seq) == {seq[i] : i \in DOMAIN seq}

(***************************************************************************)
(* Failover list                                                           *)
(***************************************************************************)

\* qd_failover_item_t, the parts the serialization reads.
Schemes   == {NULL, "amqp", "amqps"}
HostPorts == {NULL, "a:1", "bb:22"}
FailoverItems == [scheme : Schemes, host_port : HostPorts]

\* The item qd_dispatch_configure_connector puts first in the list: its
\* scheme and host_port are never null.
OwnItems == [scheme : {"amqp", "amqps"}, host_port : {"a:1"}]

\* One item as the two strcat groups of the loop append it.
cat_item(buf, item) ==
    LET b1 == IF item.scheme # NULL THEN (buf \o item.scheme) \o "://" ELSE buf
    IN  IF item.host_port # NULL THEN b1 \o item.host_port ELSE b1

RECURSIVE failover_length_from(_, _)
failover_length_from(list, k) ==
    IF k > Len(list) THEN 0
    ELSE LET item == list[k]
             a == IF item.scheme # NULL THEN Len(item.scheme) + 3 ELSE 0
             b == IF item.host_port # NULL THEN Len(item.host_port) ELSE 0
             c == IF k < Len(list) THEN 2 ELSE 0
         IN  a + b + c + failover_length_from(list, k + 1)

\* The length without the byte for the final '\0'.
get_failover_info_length_unterminated(list) == failover_length_from(list, 1)

get_failover_info_length(list) ==
    LET arr_length == failover_length_from(list, 1)
    IN  IF arr_length > 0 THEN arr_length + 1 ELSE arr_length

\* The cursor that stops at the tail of the list.
next_item_no_wrap(list, item) == IF item = Len(list) THEN 0 ELSE item + 1

\* item = DEQ_NEXT(item); if (item == 0) item = DEQ_HEAD(conn_info_list);
next_item(list, item) == IF item = Len(list) THEN 1 ELSE item + 1

\* The while loop of qd_entity_refresh_connector.  item is the position of
\* the loop's list cursor, 0 for a null cursor.
RECURSIVE refresh_loop(_, _, _, _, _, _)
refresh_loop(list, index, i, num_items, item, failover_info) ==
    IF item = 0 \/ num_items >= Len(list) THEN failover_info
    ELSE LET sep  == IF num_items >= 1 THEN failover_info \o ", " ELSE failover_info
             emit == (index = i) \/ (num_items > 0)
             buf  == IF emit THEN cat_item(sep, list[item]) ELSE sep
             n    == IF emit THEN num_items + 1 ELSE num_items
             nxt  == next_item(list, item)
         IN  refresh_loop(list, index, i + 1, n, nxt, buf)

\* The serialization with the starting position ignored: it begins at the head.
refresh_failover_info_from_head(list, index) ==
    refresh_loop(list, 1, 1, 0, IF Len(list) = 0 THEN 0 ELSE 1, "")

refresh_failover_info(list, index) ==
    refresh_loop(list, index, 1, 0, IF Len(list) = 0 THEN 0 ELSE 1, "")

\* What the entity can receive: the buffer has arr_length bytes; a string
\* that does not fit with its terminator overruns it.
Garbage == "<overrun>"
refresh_outcomes(list, index) ==
    LET s == refresh_failover_info(list, index)
    IN  IF Len(s) + 1 <= get_failover_info_length(list) THEN {s} ELSE {s, Garbage}

qd_entity_refresh_connector ==
    /\ \E out \in refresh_outcomes(conn_info_list, conn_index) :
          failoverUrls' = out
    /\ UNCHANGED <<conn_info_list, conn_index>>
    /\ UNCHANGED <<cfg_vars, li_vars, ct_vars, proc>>

\* A failover item arrives from the peer and is appended to the list.
append_failover_item ==
    /\ Len(conn_info_list) < MaxItems
    /\ \E item \in FailoverItems :
          conn_info_list' = Append(conn_info_list, item)
    /\ UNCHANGED <<conn_index, failoverUrls>>
    /\ UNCHANGED <<cfg_vars, li_vars, ct_vars, proc>>

\* The connector moves on to another item of the list.
advance_conn_index ==
    /\ conn_index' = IF conn_index >= Len(conn_info_list) THEN 1 ELSE conn_index + 1
    /\ UNCHANGED <<conn_info_list, failoverUrls>>
    /\ UNCHANGED <<cfg_vars, li_vars, ct_vars, proc>>

(***************************************************************************)
(* 64-bit unsigned arithmetic.  A uint64_t is its eight bytes, the least   *)
(* significant first, so that a product is computed with the wrap-around   *)
(* of the C multiplication and can be compared with the exact product.     *)
(***************************************************************************)
Bytes == 0..255

\* The uint64_t of a number below 2^31.
u64(n) == [i \in 1..8 |-> IF i <= 4 THEN (n \div (256 ^ (i - 1))) % 256 ELSE 0]

\* The uint64_t 2^k + d, for k in 8..63 and d in 0..255.
u64_pow2(k, d) ==
    [i \in 1..8 |-> IF i = (k \div 8) + 1 THEN 2 ^ (k % 8)
                    ELSE IF i = 1 THEN d ELSE 0]

\* The uint64_t of the long -1.
u64_minus1 == [i \in 1..8 |-> 255]

RECURSIVE column_sum(_, _, _, _)
column_sum(a, b, k, i) ==
    IF i > Len(a) THEN 0
    ELSE (IF k + 1 - i \in 1..Len(b) THEN a[i] * b[k + 1 - i] ELSE 0)
         + column_sum(a, b, k, i + 1)

RECURSIVE product_bytes(_, _, _, _)
product_bytes(a, b, k, carry) ==
    IF k > Len(a) + Len(b) THEN <<>>
    ELSE LET t == column_sum(a, b, k, 1) + carry
         IN  <<t % 256>> \o product_bytes(a, b, k + 1, t \div 256)

\* The exact product of two uint64_t, sixteen bytes.
exact_product(a, b) == product_bytes(a, b, 1, 0)

\* uint64_t * uint64_t as C computes it: the low 64 bits of the product.
mul_u64(a, b) == SubSeq(exact_product(a, b), 1, 8)

RECURSIVE less_from(_, _, _)
less_from(a, b, i) ==
    IF i = 0 THEN FALSE
    ELSE IF a[i] # b[i] THEN a[i] < b[i]
    ELSE less_from(a, b, i - 1)

\* a < b on numbers of the same number of bytes.
less_u64(a, b) == less_from(a, b, Len(a))

(***************************************************************************)
(* Server configuration                                                    *)
(***************************************************************************)
QD_AMQP_MIN_MAX_FRAME_SIZE == 512

\* The fields of qd_server_config_t the model follows, after memset(0).
ZeroConfig ==
    [port |-> NULL, max_frame_size |-> 0, max_sessions |-> 0,
     link_capacity |-> 0, incoming_capacity |-> u64(0),
     strip_inbound_annotations |-> FALSE, strip_outbound_annotations |-> FALSE]

\* load_strip_annotations: the config with the two booleans set, and
\* whether the assert of the else branch stopped the process.
load_strip_annotations(cf, stripAnnotations, asserts) ==
    IF stripAnnotations # NULL
    THEN [aborted |-> FALSE,
          config |->
            IF stripAnnotations = "both"
            THEN [cf EXCEPT !.strip_inbound_annotations = TRUE,
                            !.strip_outbound_annotations = TRUE]
            ELSE IF stripAnnotations = "in"
            THEN [cf EXCEPT !.strip_inbound_annotations = TRUE,
                            !.strip_outbound_annotations = FALSE]
            ELSE IF stripAnnotations = "out"
            THEN [cf EXCEPT !.strip_inbound_annotations = FALSE,
                            !.strip_outbound_annotations = TRUE]
            ELSE IF stripAnnotations = "no"
            THEN [cf EXCEPT !.strip_inbound_annotations = FALSE,
                            !.strip_outbound_annotations = FALSE]
            ELSE cf]
    ELSE [aborted |-> asserts,
          config |-> [cf EXCEPT !.strip_inbound_annotations = TRUE,
                                !.strip_outbound_annotations = TRUE]]

\* The limit of the incoming capacity: 2^31 - 1 where size_t is narrower
\* than eight bytes, none (0) elsewhere.
capacity_limit(sz) == IF sz < 8 THEN 2147483647 ELSE 0

\* The capacity with the sentinel 0 on a narrow size_t when there is no
\* session frame count.
incoming_capacity_zero_sentinel(ssn_frames, max_frame_size, sz) ==
    IF ssn_frames = u64(0)
    THEN [capacity |-> IF sz < 8 THEN u64(0)
                       ELSE mul_u64(u64(2147483647), u64(max_frame_size)),
          warning |-> -1]
    ELSE LET trial_ic == mul_u64(ssn_frames, u64(max_frame_size))
             limit    == capacity_limit(sz)
         IN  IF limit = 0 \/ less_u64(trial_ic, u64(limit))
             THEN [capacity |-> IF less_u64(trial_ic, u64(512)) THEN u64(512) ELSE trial_ic,
                   warning |-> -1]
             ELSE [capacity |-> u64(limit), warning |-> limit \div max_frame_size]

\* The incoming capacity and the truncation warning (-1: none) for a
\* session frame count and a max frame size already raised to the minimum.
incoming_capacity(ssn_frames, max_frame_size, sz) ==
    IF ssn_frames = u64(0)
    THEN [capacity |-> IF sz < 8 THEN u64(2147483647)
                       ELSE mul_u64(u64(2147483647), u64(max_frame_size)),
          warning |-> -1]
    ELSE LET mfs      == u64(max_frame_size)
             trial_ic == mul_u64(ssn_frames, mfs)
             limit    == capacity_limit(sz)
         IN  IF limit = 0 \/ less_u64(trial_ic, u64(limit))
             THEN [capacity |-> IF less_u64(trial_ic, u64(QD_AMQP_MIN_MAX_FRAME_SIZE))
                                THEN u64(QD_AMQP_MIN_MAX_FRAME_SIZE) ELSE trial_ic,
                   warning |-> -1]
             ELSE [capacity |-> u64(limit),
                   warning |-> limit \div max_frame_size]

\* load_server_config on the attributes of an entity: the status, the
\* config and the truncation warning.  A required attribute that is absent
\* sets the error, and the error path frees and zeroes the config.
load_server_config(e, sz, asserts) ==
    LET failed == [status |-> "error", config |-> ZeroConfig, warning |-> -1]
    IN
    IF e.port = NULL \/ e.maxFrameSize = <<>> \/ e.maxSessions = <<>>
    THEN failed
    ELSE
    LET c0  == [ZeroConfig EXCEPT !.port = e.port,
                                  !.max_frame_size = e.maxFrameSize[1],
                                  !.max_sessions = e.maxSessions[1],
                                  !.link_capacity = e.linkCapacity]
        c1  == [c0 EXCEPT !.link_capacity =
                              IF c0.link_capacity = 0 THEN 250 ELSE c0.link_capacity,
                          !.max_sessions =
                              IF c0.max_sessions = 0 \/ c0.max_sessions > 32768
                              THEN 32768 ELSE c0.max_sessions,
                          !.max_frame_size =
                              IF c0.max_frame_size < QD_AMQP_MIN_MAX_FRAME_SIZE
                              THEN QD_AMQP_MIN_MAX_FRAME_SIZE ELSE c0.max_frame_size]
        ic  == incoming_capacity(e.maxSessionFrames, c1.max_frame_size, sz)
        c2  == [c1 EXCEPT !.incoming_capacity = ic.capacity]
        sa  == load_strip_annotations(c2, e.stripAnnotations, asserts)
    IN  IF sa.aborted
        THEN [status |-> "abort", config |-> c2, warning |-> ic.warning]
        ELSE [status |-> "ok", config |-> sa.config, warning |-> ic.warning]

\* The attributes an entity can carry.  An absent string is NULL, an
\* absent required number the empty sequence; an absent maxSessionFrames
\* or linkCapacity reads as its default, 0.
StripValues == {NULL, "both", "in", "out", "no", "bogus"}
FrameSizes  == {<<>>, <<0>>, <<512>>, <<16384>>}
FrameCounts == {u64(0), u64(1), u64(4), u64_pow2(22, 0), u64_pow2(21, 255),
                u64_pow2(55, 0), u64_pow2(55, 1), u64_pow2(60, 7), u64_minus1}

BaseEntity ==
    [port |-> "5672", maxFrameSize |-> <<16384>>, maxSessions |-> <<10>>,
     linkCapacity |-> 0, maxSessionFrames |-> u64(0), stripAnnotations |-> "both"]

Entities ==
       {[BaseEntity EXCEPT !.stripAnnotations = s, !.port = p] :
            s \in StripValues, p \in {NULL, "5672"}}
    \cup {[BaseEntity EXCEPT !.maxFrameSize = f, !.maxSessionFrames = n] :
            f \in FrameSizes, n \in FrameCounts}
    \cup {[BaseEntity EXCEPT !.maxSessions = m, !.linkCapacity = l] :
            m \in {<<>>, <<0>>, <<10>>, <<40000>>}, l \in {0, 100}}

\* One resolution of an entity into a configuration.
resolve_config ==
    /\ cfg_status # "abort"
    /\ \E e \in Entities :
          LET r == load_server_config(e, size_t_bytes, ~ndebug)
          IN  /\ entity' = e
              /\ config' = r.config
              /\ cfg_status' = r.status
              /\ trunc_warning' = r.warning
    /\ UNCHANGED <<size_t_bytes, ndebug, reg_vars, log_vars>>
    /\ UNCHANGED <<fo_vars, li_vars, ct_vars, proc>>

\* The build is one of the four: size_t of four or eight bytes, assertions
\* kept or compiled out.
IdleBuildVars(sizes, builds) ==
    /\ size_t_bytes \in sizes
    /\ ndebug \in builds
    /\ entity = BaseEntity
    /\ config = ZeroConfig
    /\ cfg_status = "none"
    /\ trunc_warning = -1
    /\ mem = <<>>
    /\ sslp = <<>>
    /\ config_ssl_profiles = <<>>
    /\ saslp = <<>>
    /\ config_sasl_plugins = <<>>
    /\ configs = <<>>

\* No messageLoggingComponents value has been read.
IdleLogVars ==
    /\ log_message = NoString
    /\ log_bits = -1
    /\ log_enabled = <<>>

IdleConfigVars(sizes, builds) == IdleBuildVars(sizes, builds) /\ IdleLogVars

InitConfigVars == IdleConfigVars({4, 8}, BOOLEAN)

(***************************************************************************)
(* Lifecycle of listeners and connectors                                   *)
(***************************************************************************)

\* The entities the management agent configures listeners and connectors
\* from: one that resolves and one without the required port.
HandleEntities == {BaseEntity, [BaseEntity EXCEPT !.port = NULL]}

\* The ways the failoverUrls attribute of a listener can be: absent, a list
\* qd_failover_list parses, a list it rejects.
FailoverUrlInputs == {"absent", "parsed", "rejected"}

\* qd_server_listener: a listener that is not listening.
\* passes counts the start() passes that reached the listener, up to 2;
\* closing tells that pn_listener_close has been called on its accept
\* channel, released counts the qd_listener_decref calls of the manager.
new_listener ==
    [pn_listener |-> FALSE, exit_on_error |-> FALSE, passes |-> 0,
     closing |-> FALSE, released |-> 0]

one_more_pass(n) == IF n < 2 THEN n + 1 ELSE n

\* qd_server_connector: a connector holding the manager's reference.
\* released and detached count the decref and DEQ_REMOVE calls of
\* delete_connector on the handle.
new_connector ==
    [state |-> "IDLE", ctx |-> 0, pending |-> FALSE, ref_count |-> 1,
     released |-> 0, detached |-> 0]

qd_dispatch_configure_listener ==
    /\ proc = "running" /\ mgmt_pc = "idle"
    /\ Len(li) < MaxListeners
    /\ \E e \in HandleEntities, fol \in FailoverUrlInputs :
          IF load_server_config(e, size_t_bytes, ~ndebug).status = "ok"
             /\ fol # "rejected"
          THEN /\ li' = Append(li, new_listener)
               /\ listeners' = Append(listeners, Len(li) + 1)
          ELSE UNCHANGED <<li, listeners>>
    /\ UNCHANGED <<first_start, last_start, fo_vars, cfg_vars, ct_vars, proc>>

qd_dispatch_configure_connector ==
    /\ proc = "running" /\ mgmt_pc = "idle"
    /\ Len(ct) < MaxConnectors
    /\ \E e \in HandleEntities :
          IF load_server_config(e, size_t_bytes, ~ndebug).status = "ok"
          THEN /\ ct' = Append(ct, new_connector)
               /\ ct_lock' = Append(ct_lock, "")
               /\ connectors' = Append(connectors, Len(ct) + 1)
          ELSE UNCHANGED <<ct, ct_lock, connectors>>
    /\ UNCHANGED <<cx, mgmt_pc, impl, li_vars, fo_vars, cfg_vars, proc>>

\* The tests of the two loops of qd_connection_manager_start.
should_listen(l) == ~l.pn_listener

\* The connector test with the connecting state forgotten.
should_connect_unless_open(c) == ~(c.state = "OPEN")

should_connect(c) == ~(c.state = "OPEN" \/ c.state = "CONNECTING")

\* The exit test without the first_start flag.
listen_failure_always_fatal(listening, first) == ~listening

\* The test that sends a failed listen to exit(1).
listen_failure_is_fatal(listening, first) == ~listening /\ first

\* qd_connector_connect: an attempt is scheduled, and holds a reference.
qd_connector_connect(c) ==
    [c EXCEPT !.pending = TRUE,
              !.ref_count = IF c.pending THEN @ ELSE @ + 1]

\* The listener loop from position k of the collection.  ok[l] tells
\* whether qd_listener_listen would succeed on listener l.
RECURSIVE start_listeners(_, _, _, _)
start_listeners(k, lis, ok, failed) ==
    IF k > Len(listeners)
    THEN [li |-> lis, failed |-> failed, exit |-> FALSE]
    ELSE LET l == listeners[k]
         IN  IF ~should_listen(lis[l])
             THEN start_listeners(k + 1, [lis EXCEPT ![l].passes = one_more_pass(@)],
                                  ok, failed)
             ELSE IF listen_failure_is_fatal(ok[l], first_start)
             THEN [li |-> [lis EXCEPT ![l].passes = one_more_pass(@)],
                   failed |-> failed \cup {l}, exit |-> TRUE]
             ELSE start_listeners(k + 1,
                      [lis EXCEPT ![l].pn_listener = ok[l],
                                  ![l].exit_on_error = first_start,
                                  ![l].passes = one_more_pass(@)],
                      ok, IF ok[l] THEN failed ELSE failed \cup {l})

qd_connection_manager_start ==
    /\ proc = "running" /\ mgmt_pc = "idle"
    /\ \E ok \in [DOMAIN li -> BOOLEAN] :
          LET r == start_listeners(1, li, ok, {})
              connect == {c \in Range(connectors) : should_connect(ct[c])}
          IN  /\ li' = r.li
              /\ IF r.exit
                 THEN /\ proc' = "exited"
                      /\ last_start' = [failed |-> r.failed]
                      /\ UNCHANGED <<ct, first_start>>
                 ELSE /\ ct' = [c \in DOMAIN ct |->
                                  IF c \in connect THEN qd_connector_connect(ct[c])
                                  ELSE ct[c]]
                      /\ last_start' = [failed |-> r.failed]
                      /\ first_start' = FALSE
                      /\ UNCHANGED proc
    /\ UNCHANGED <<listeners, connectors, ct_lock, cx, mgmt_pc, impl,
                   fo_vars, cfg_vars>>

(***************************************************************************)
(* Connections: the contexts that own the transports.  The I/O driver and  *)
(* each connection's own thread act on them; the management thread reaches *)
(* them only through delete_connector.                                     *)
(***************************************************************************)

\* A context the driver opens for connector c.  of keeps the connector the
\* context was opened for; invoked tells how the deferred close last ran.
new_connection(c, transport) ==
    [of |-> c, connector |-> c, pn_conn |-> transport, deferred |-> <<>>,
     freed |-> FALSE, closed_by |-> "", enqueued |-> 0, invoked |-> ""]

\* pn_connection_close on the transport of context x, by thread self.
pn_connection_close(contexts, x, self) ==
    [contexts EXCEPT ![x].pn_conn = "closed", ![x].closed_by = self]

\* A deferred close that closes nothing on either path.
deferred_close_dropped(contexts, context, discard, self) == contexts

\* deferred_close(context, discard), run by thread self.
deferred_close(contexts, context, discard, self) ==
    IF ~discard THEN pn_connection_close(contexts, context, self)
    ELSE contexts

\* qd_connection_invoke_deferred(ctx, deferred_close, ctx->pn_conn): the
\* call is queued on the context, for the context's own thread.
qd_connection_invoke_deferred(contexts, x, self) ==
    [contexts EXCEPT ![x].deferred = Append(@, [call |-> "deferred_close", context |-> x]),
                     ![x].enqueued = @ + 1]

\* The scheduled attempt of connector c fires: a context is opened and the
\* connector is connecting; a connector deleted in the meantime only loses
\* the reference the attempt held.
try_open(c) ==
    /\ proc = "running"
    /\ ct[c].pending /\ ct_lock[c] = ""
    /\ IF c \in Range(connectors)
       THEN /\ Len(cx) < MaxConnections
            /\ \E transport \in {"null", "open"} :
                  cx' = Append(cx, new_connection(c, transport))
            /\ ct' = [ct EXCEPT ![c].pending = FALSE, ![c].ref_count = @ - 1,
                                ![c].state = "CONNECTING", ![c].ctx = Len(cx) + 1]
       ELSE /\ ct' = [ct EXCEPT ![c].pending = FALSE, ![c].ref_count = @ - 1]
            /\ UNCHANGED cx
    /\ UNCHANGED <<connectors, ct_lock, mgmt_pc, impl, li_vars, fo_vars, cfg_vars, proc>>

\* The connection of context x is established.
connection_opened(x) ==
    /\ proc = "running"
    /\ ~cx[x].freed /\ cx[x].pn_conn = "open"
    /\ cx[x].connector # 0
    /\ ct_lock[cx[x].connector] = ""
    /\ ct[cx[x].connector].state = "CONNECTING"
    /\ ct' = [ct EXCEPT ![cx[x].connector].state = "OPEN"]
    /\ UNCHANGED <<connectors, ct_lock, cx, mgmt_pc, impl, li_vars, fo_vars, cfg_vars, proc>>

\* The thread of context x runs the first deferred call of its queue.
invoke_deferred_calls(x) ==
    /\ proc = "running"
    /\ ~cx[x].freed /\ cx[x].deferred # <<>>
    /\ LET dc == Head(cx[x].deferred)
           c1 == deferred_close(cx, dc.context, FALSE, "conn")
       IN  cx' = [c1 EXCEPT ![x].deferred = Tail(@), ![x].invoked = "run"]
    /\ UNCHANGED <<connectors, ct, ct_lock, mgmt_pc, impl, li_vars, fo_vars, cfg_vars, proc>>

\* The calls of a queue, each invoked with discard set.
RECURSIVE discard_calls(_, _)
discard_calls(contexts, queue) ==
    IF queue = <<>> THEN contexts
    ELSE discard_calls(deferred_close(contexts, Head(queue).context, TRUE, "conn"),
                       Tail(queue))

\* Context x is freed (its connection ended, or the server shuts it down):
\* queued calls are discarded, and a connector still attached is idle again.
qd_connection_free(x) ==
    /\ proc = "running"
    /\ ~cx[x].freed
    /\ cx[x].connector # 0 => ct_lock[cx[x].connector] = ""
    /\ LET c1 == discard_calls(cx, cx[x].deferred)
       IN  cx' = [c1 EXCEPT ![x].freed = TRUE, ![x].deferred = <<>>,
                            ![x].invoked = IF cx[x].deferred # <<>> THEN "discard" ELSE @]
    /\ ct' = IF cx[x].connector # 0
             THEN [ct EXCEPT ![cx[x].connector].ctx = 0,
                             ![cx[x].connector].state = "IDLE"]
             ELSE ct
    /\ UNCHANGED <<connectors, ct_lock, mgmt_pc, impl, li_vars, fo_vars, cfg_vars, proc>>

(***************************************************************************)
(* qd_connection_manager_delete_connector, step by step: the management    *)
(* thread runs it while the connection's thread runs on its own.           *)
(***************************************************************************)
sys_mutex_lock(holder, self) == self

\* An unlock that leaves the lock with its holder.
sys_mutex_unlock_missing(holder, self) == holder

sys_mutex_unlock(holder, self) == ""

\* The transport closed by the deleting thread itself.
close_transport_inline(contexts, x, self) ==
    pn_connection_close(contexts, x, self)

\* What delete_connector does with the transport of live context x.
close_transport(contexts, x, self) ==
    qd_connection_invoke_deferred(contexts, x, self)

\* The block under the lock, for connector c.
clear_and_enqueue(contexts, c, self) ==
    IF c.ctx # 0
    THEN LET c1 == [contexts EXCEPT ![c.ctx].connector = 0]
         IN  IF c1[c.ctx].pn_conn # "null"
             THEN close_transport(c1, c.ctx, self)
             ELSE c1
    ELSE contexts

\* DEQ_REMOVE of handle h from a collection.  A handle that is not linked
\* has null links: head and tail both become null, the collection is empty.
deq_remove(list, h) ==
    IF h \in Range(list) THEN SelectSeq(list, LAMBDA e : e # h) ELSE <<>>

\* qd_connector_decref by the manager.
qd_connector_decref(c) == [c EXCEPT !.ref_count = @ - 1, !.released = @ + 1]

delete_connector_lock(c) ==
    /\ proc = "running" /\ mgmt_pc = "idle"
    /\ c \in Range(connectors)
    /\ ct_lock[c] = ""
    /\ ct_lock' = [ct_lock EXCEPT ![c] = sys_mutex_lock(@, "mgmt")]
    /\ mgmt_pc' = "dc_locked"
    /\ impl' = c
    /\ UNCHANGED <<connectors, ct, cx, li_vars, fo_vars, cfg_vars, proc>>

delete_connector_locked ==
    /\ proc = "running" /\ mgmt_pc = "dc_locked"
    /\ cx' = clear_and_enqueue(cx, ct[impl], "mgmt")
    /\ mgmt_pc' = "dc_unlock"
    /\ UNCHANGED <<connectors, ct, ct_lock, impl, li_vars, fo_vars, cfg_vars, proc>>

delete_connector_unlock ==
    /\ proc = "running" /\ mgmt_pc = "dc_unlock"
    /\ ct_lock' = [ct_lock EXCEPT ![impl] = sys_mutex_unlock(@, "mgmt")]
    /\ mgmt_pc' = "dc_remove"
    /\ UNCHANGED <<connectors, ct, cx, impl, li_vars, fo_vars, cfg_vars, proc>>

\* The assertions of DEQ_REMOVE stop a build that keeps them when the
\* handle is not linked in the collection.
delete_connector_remove ==
    /\ proc = "running" /\ mgmt_pc = "dc_remove"
    /\ IF impl \notin Range(connectors) /\ ~ndebug
       THEN /\ proc' = "crashed"
            /\ UNCHANGED <<connectors, ct, mgmt_pc, impl>>
       ELSE /\ connectors' = deq_remove(connectors, impl)
            /\ ct' = [ct EXCEPT ![impl] =
                         qd_connector_decref([@ EXCEPT !.detached = @ + 1])]
            /\ mgmt_pc' = "idle"
            /\ impl' = 0
            /\ UNCHANGED proc
    /\ UNCHANGED <<ct_lock, cx, li_vars, fo_vars, cfg_vars>>

\* delete_connector called again on a handle it has already deleted.  The
\* connector may have been freed since: the call then reads freed memory,
\* which either still holds the connector or stops the process.
delete_connector_again(c) ==
    /\ proc = "running" /\ mgmt_pc = "idle"
    /\ c \notin Range(connectors)
    /\ ct[c].detached = 1
    /\ ct_lock[c] = ""
    /\ ct_lock' = [ct_lock EXCEPT ![c] = sys_mutex_lock(@, "mgmt")]
    /\ mgmt_pc' = "dc_locked"
    /\ impl' = c
    /\ UNCHANGED <<connectors, ct, cx, li_vars, fo_vars, cfg_vars, proc>>

\* The management thread is about to use a connector or a context that has
\* been freed.
uses_freed_memory ==
    /\ mgmt_pc \in {"dc_locked", "dc_unlock", "dc_remove"}
    /\ \/ ct[impl].ref_count <= 0
       \/ mgmt_pc = "dc_locked" /\ ct[impl].ctx # 0 /\ cx[ct[impl].ctx].freed

use_after_free_crash ==
    /\ proc = "running"
    /\ uses_freed_memory
    /\ proc' = "crashed"
    /\ UNCHANGED <<li_vars, ct_vars, fo_vars, cfg_vars>>

\* The accept channel of listener l ends on an error reported by the
\* driver.  A listener marked exit_on_error takes the process down with it;
\* any other stops accepting and is left for a later start().
listener_closed(l) ==
    /\ proc = "running"
    /\ li[l].pn_listener
    /\ li' = [li EXCEPT ![l].pn_listener = FALSE]
    /\ proc' = IF li[l].exit_on_error THEN "exited" ELSE proc
    /\ UNCHANGED <<listeners, first_start, last_start, ct_vars, fo_vars, cfg_vars>>

InitLifecycleVars ==
    /\ listeners = <<>>
    /\ li = <<>>
    /\ connectors = <<>>
    /\ ct = <<>>
    /\ ct_lock = <<>>
    /\ cx = <<>>
    /\ first_start = TRUE
    /\ proc = "running"
    /\ mgmt_pc = "idle"
    /\ impl = 0
    /\ last_start = [failed |-> {}]

InitFailoverVars ==
    /\ \E item \in OwnItems : conn_info_list = <<item>>
    /\ conn_index = 1
    /\ failoverUrls = NULL

InitFailover ==
    /\ InitFailoverVars
    /\ IdleConfigVars({8}, {TRUE})
    /\ InitLifecycleVars

NextFailover ==
    \/ qd_entity_refresh_connector
    \/ append_failover_item
    \/ advance_conn_index

\* The longest starting position of a connector: its ordinal among the
\* connectors, which the length of its own list does not limit.
MaxIndex == 5

\* A connector whose starting position is any ordinal.
InitRefresh ==
    /\ \E item \in OwnItems : conn_info_list = <<item>>
    /\ conn_index \in 1..MaxIndex
    /\ failoverUrls = NULL
    /\ IdleConfigVars({8}, {TRUE})
    /\ InitLifecycleVars

NextRefresh ==
    \/ qd_entity_refresh_connector
    \/ append_failover_item

SpecRefresh == InitRefresh /\ [][NextRefresh]_vars

\* The lifecycle does not read the failover list, and reads the build only
\* through the assertions of DEQ_REMOVE: they are fixed to one value here.
IdleFailoverVars ==
    /\ conn_info_list = <<[scheme |-> "amqp", host_port |-> "a:1"]>>
    /\ conn_index = 1
    /\ failoverUrls = NULL

Init ==
    /\ IdleFailoverVars
    /\ IdleConfigVars({8}, {TRUE})
    /\ InitLifecycleVars

Next ==
    \/ qd_dispatch_configure_listener
    \/ qd_dispatch_configure_connector
    \/ qd_connection_manager_start
    \/ \E l \in DOMAIN li : listener_closed(l)
    \/ \E c \in DOMAIN ct : try_open(c)
    \/ \E x \in DOMAIN cx : connection_opened(x)
    \/ \E x \in DOMAIN cx : invoke_deferred_calls(x)
    \/ \E x \in DOMAIN cx : qd_connection_free(x)
    \/ \E c \in DOMAIN ct : delete_connector_lock(c)
    \/ delete_connector_locked
    \/ delete_connector_unlock
    \/ delete_connector_remove

Spec == Init /\ [][Next]_vars

\* The connection threads are scheduled fairly: a context with a queued
\* call gets to run it.
SpecLive ==
    Spec /\ \A x \in 1..MaxConnections :
               WF_vars(x \in DOMAIN cx /\ invoke_deferred_calls(x))

\* The management agent deletes a connector handle a second time.
NextAgain ==
    \/ Next
    \/ \E c \in DOMAIN ct : delete_connector_again(c)
    \/ use_after_free_crash

InitAgain ==
    /\ IdleFailoverVars
    /\ IdleConfigVars({8}, BOOLEAN)
    /\ InitLifecycleVars

SpecAgain == InitAgain /\ [][NextAgain]_vars

SpecFailover == InitFailover /\ [][NextFailover]_vars

InitConfig ==
    /\ IdleFailoverVars
    /\ InitConfigVars
    /\ InitLifecycleVars

NextConfig == resolve_config

SpecConfig == InitConfig /\ [][NextConfig]_vars

(***************************************************************************)
(* TLS profiles and auth plugins                                           *)
(***************************************************************************)
MaxProfiles == 2
MaxPlugins == 1
MaxEndpoints == 1

\* The heap.  A pointer is the address of a block, NullPtr a null pointer;
\* mem maps the address of every block malloc has returned to its content,
\* FREED once the block has been given to free().  The block malloc returns
\* for a field of an object is named after the object and the field.
NullPtr == <<>>
FREED == <<"<freed>">>

malloc(m, at, s) == (at :> s) @@ m

\* strdup(s), and qd_entity_opt_string(entity, attr, 0) of an attribute
\* whose value is s: a new block at address at, null for a null s.
strdup(m, at, s) ==
    IF s = NoString THEN [mem |-> m, ptr |-> NullPtr]
    ELSE [mem |-> malloc(m, at, s), ptr |-> at]

\* A copy that hands out the pointer it was given.
SSTRDUP_shared(m, at, S) == [mem |-> m, ptr |-> S]

\* #define SSTRDUP(S) ((S) ? strdup(S) : NULL)
SSTRDUP(m, at, S) ==
    IF S # NullPtr THEN strdup(m, at, m[S]) ELSE [mem |-> m, ptr |-> NullPtr]

\* free(p); free(NULL) does nothing.
free(m, p) == IF p = NullPtr THEN m ELSE [m EXCEPT ![p] = FREED]

RECURSIVE free_all(_, _)
free_all(m, ptrs) ==
    IF ptrs = <<>> THEN m ELSE free_all(free(m, Head(ptrs)), Tail(ptrs))

\* The TLS fields of qd_server_config_t, in the order load_server_config
\* copies them, and the field of qd_config_ssl_profile_t each comes from.
TlsFields ==
    <<"ssl_certificate_file", "ssl_private_key_file", "ssl_ciphers",
      "ssl_protocols", "ssl_password", "ssl_trusted_certificate_db",
      "ssl_trusted_certificates", "ssl_uid_format", "ssl_uid_name_mapping_file">>

ProfileField(f) ==
    IF f = "ssl_uid_name_mapping_file" THEN "uid_name_mapping_file" ELSE f

EmptyTls == [f \in Range(TlsFields) |-> NullPtr]

\* The profile part of qd_server_config_t after memset(0).  tls holds the
\* endpoint's own ssl_* fields, sasl_plugin_config.tls those of the plugin.
ZeroProfileConfig ==
    [port |-> NullPtr, sasl_mechanisms |-> NullPtr, ssl_profile |-> NullPtr,
     sasl_plugin |-> NullPtr,
     ssl_required |-> FALSE, ssl_require_peer_authentication |-> FALSE,
     tls |-> EmptyTls,
     sasl_plugin_config |->
         [auth_service |-> NullPtr, sasl_init_hostname |-> NullPtr,
          use_ssl |-> FALSE, tls |-> EmptyTls]]

\* qd_find_ssl_profile / qd_find_sasl_plugin: the first handle of the
\* collection whose name compares equal, 0 when there is none.
RECURSIVE find_by_name(_, _, _, _, _)
find_by_name(list, objs, m, name, k) ==
    IF k > Len(list) THEN 0
    ELSE IF m[objs[list[k]].name] = name THEN list[k]
    ELSE find_by_name(list, objs, m, name, k + 1)

qd_find_ssl_profile(m, name) == find_by_name(config_ssl_profiles, sslp, m, name, 1)

qd_find_sasl_plugin(m, name) == find_by_name(config_sasl_plugins, saslp, m, name, 1)

\* The nine SSTRDUP lines that fill a TLS slot from a profile, from the
\* k-th on.  Append(base, f) is the address of the block of field f.
RECURSIVE copy_tls(_, _, _, _, _)
copy_tls(m, slot, profile, base, k) ==
    IF k > Len(TlsFields) THEN [mem |-> m, tls |-> slot]
    ELSE LET f == TlsFields[k]
             d == SSTRDUP(m, Append(base, f), profile[ProfileField(f)])
         IN  copy_tls(d.mem, [slot EXCEPT ![f] = d.ptr], profile, base, k + 1)

\* strstr(haystack, word) != 0, where no word the model looks for
\* straddles two pieces of a string.
strstr(haystack, word) == \E i \in DOMAIN haystack : haystack[i] = word

\* What reading the fields of a null qd_config_ssl_profile_t* can do: stop
\* the process, or yield wild pointers whose copies hold garbage.
NullDerefOutcomes == {"crash", "wild"}
Garbage_block == <<"<garbage>">>

wild_tls(m, base) ==
    [mem |-> [a \in {Append(base, f) : f \in Range(TlsFields)} |-> Garbage_block] @@ m,
     tls |-> [f \in Range(TlsFields) |-> Append(base, f)]]

\* The sslProfile block of load_server_config for the config of endpoint k.
load_ssl_profile(m, cf, k, requireSsl) ==
    IF cf.ssl_profile # NullPtr
    THEN LET c0 == [cf EXCEPT
                      !.ssl_required = requireSsl,
                      !.ssl_require_peer_authentication =
                          (cf.sasl_mechanisms # NullPtr
                             /\ strstr(m[cf.sasl_mechanisms], "EXTERNAL"))]
             ssl_profile == qd_find_ssl_profile(m, m[cf.ssl_profile])
         IN  IF ssl_profile # 0
             THEN LET c == copy_tls(m, c0.tls, sslp[ssl_profile],
                                    <<"config", k>>, 1)
                  IN  [mem |-> c.mem, config |-> [c0 EXCEPT !.tls = c.tls]]
             ELSE [mem |-> m, config |-> c0]
    ELSE [mem |-> m, config |-> cf]

\* The saslPlugin block of load_server_config.  ub is the outcome of the
\* build when auth_ssl_profile is null at the lines that read its fields.
load_sasl_plugin(m, cf, k, ub) ==
    IF cf.sasl_plugin # NullPtr
    THEN LET sasl_plugin == qd_find_sasl_plugin(m, m[cf.sasl_plugin])
         IN  IF sasl_plugin # 0
             THEN LET base  == <<"config", k, "sasl_plugin_config">>
                      at(f) == Append(base, f)
                      a  == SSTRDUP(m, at("auth_service"), saslp[sasl_plugin].auth_service)
                      h  == SSTRDUP(a.mem, at("sasl_init_hostname"),
                                    saslp[sasl_plugin].sasl_init_hostname)
                      c0 == [cf EXCEPT !.sasl_plugin_config.auth_service = a.ptr,
                                       !.sasl_plugin_config.sasl_init_hostname = h.ptr]
                  IN  IF saslp[sasl_plugin].auth_ssl_profile # NullPtr
                      THEN LET c1 == [c0 EXCEPT !.sasl_plugin_config.use_ssl = TRUE]
                               auth_ssl_profile ==
                                   qd_find_ssl_profile(h.mem, h.mem[saslp[sasl_plugin].auth_ssl_profile])
                           IN  IF auth_ssl_profile = 0
                               THEN IF ub = "crash"
                                    THEN [mem |-> h.mem, config |-> c1, status |-> "crash"]
                                    ELSE LET w == wild_tls(h.mem, base)
                                         IN  [mem |-> w.mem,
                                              config |-> [c1 EXCEPT !.sasl_plugin_config.tls = w.tls],
                                              status |-> "ok"]
                               ELSE LET c == copy_tls(h.mem, c1.sasl_plugin_config.tls,
                                                      sslp[auth_ssl_profile], base, 1)
                                    IN  [mem |-> c.mem,
                                         config |-> [c1 EXCEPT !.sasl_plugin_config.tls = c.tls],
                                         status |-> "ok"]
                      ELSE [mem |-> h.mem,
                            config |-> [c0 EXCEPT !.sasl_plugin_config.use_ssl = FALSE],
                            status |-> "ok"]
             ELSE [mem |-> m, config |-> cf, status |-> "error"]
    ELSE [mem |-> m, config |-> cf, status |-> "ok"]

\* qd_server_config_free: the frees of the fields the model follows, then
\* memset(0).  The function has no line for cf->sasl_plugin.
qd_server_config_free(m, cf) ==
    [mem |-> free_all(m,
                 <<cf.port, cf.sasl_mechanisms, cf.ssl_profile>>
                 \o [i \in 1..Len(TlsFields) |-> cf.tls[TlsFields[i]]]
                 \o <<cf.sasl_plugin_config.auth_service,
                      cf.sasl_plugin_config.sasl_init_hostname>>
                 \o [i \in 1..Len(TlsFields) |->
                        cf.sasl_plugin_config.tls[TlsFields[i]]]),
     config |-> ZeroProfileConfig]

\* The listener and connector entities that name profiles.
EndpointEntity(p, sp, mech, req) ==
    [sslProfile |-> p, saslPlugin |-> sp, saslMechanisms |-> mech,
     requireSsl |-> req] @@ BaseEntity

\* The saslMechanisms values: absent, EXTERNAL alone, EXTERNAL in a list,
\* and EXTERNAL only inside the longer name X-EXTERNAL.
Mechanisms ==
    {NoString, <<"EXTERNAL">>, <<"PLAIN", " ", "EXTERNAL">>, <<"X-", "EXTERNAL">>}

\* Listeners and connectors for the registry operations: each names the
\* profile tls-a, the plugin auth, or both.
RegistryListeners ==
    {EndpointEntity(<<"tls-a">>, NoString, <<"EXTERNAL">>, TRUE),
     EndpointEntity(NoString, <<"auth">>, <<"PLAIN">>, FALSE)}

RegistryConnectors ==
    {EndpointEntity(<<"tls-a">>, <<"auth">>, <<"PLAIN">>, TRUE)}

\* Listeners and connectors for the resolution of one entity: every
\* mechanism list with and without an sslProfile; a plugin that is
\* registered and one that never is, and an entity without a required
\* attribute.
ResolveListeners ==
    {EndpointEntity(p, NoString, mech, FALSE) :
        p \in {NoString, <<"tls-a">>}, mech \in Mechanisms}

ResolveConnectors ==
    {EndpointEntity(<<"tls-a">>, <<"auth">>, <<"PLAIN">>, TRUE),
     EndpointEntity(<<"tls-a">>, <<"other">>, <<"EXTERNAL">>, TRUE),
     EndpointEntity(NoString, <<"other">>, <<"PLAIN">>, FALSE),
     [EndpointEntity(<<"tls-a">>, <<"auth">>, <<"EXTERNAL">>, TRUE)
          EXCEPT !.maxFrameSize = <<>>]}

EndpointEntities ==
    RegistryListeners \cup RegistryConnectors
        \cup ResolveListeners \cup ResolveConnectors

\* load_server_config on each of these entities, for each build: resolved
\* once, since every call on the same entity and build resolves the same.
resolved_attributes ==
    [e \in EndpointEntities, sz \in {4, 8}, asserts \in BOOLEAN |->
        load_server_config(e, sz, asserts)]

\* An attribute of the entity as qd_entity_opt_string returns it.
entity_string(v) == IF v = NULL THEN NoString ELSE <<v>>

\* load_server_config with its profile blocks, on the config of endpoint k:
\* the attributes up to the annotations are resolved as load_server_config
\* resolves them, the strings are allocated in the order they are read, and
\* the error path frees the config.
load_server_config_profiles(m, e, k, sz, asserts, ub) ==
    LET r0  == resolved_attributes[e, sz, asserts]
        at(f) == <<"config", k, f>>
        p   == strdup(m, at("port"), entity_string(e.port))
        c0  == [ZeroProfileConfig EXCEPT !.port = p.ptr]
    IN  IF r0.status = "error"
        THEN LET fr == qd_server_config_free(p.mem, c0)
             IN  [mem |-> fr.mem, config |-> fr.config, status |-> "error"]
        ELSE
        LET sm == strdup(p.mem, at("sasl_mechanisms"), e.saslMechanisms)
            sp == strdup(sm.mem, at("ssl_profile"), e.sslProfile)
            pl == strdup(sp.mem, at("sasl_plugin"), e.saslPlugin)
            c1 == [c0 EXCEPT !.sasl_mechanisms = sm.ptr, !.ssl_profile = sp.ptr,
                             !.sasl_plugin = pl.ptr]
        IN  IF r0.status = "abort"
            THEN [mem |-> pl.mem, config |-> c1, status |-> "abort"]
            ELSE LET s1 == load_ssl_profile(pl.mem, c1, k, e.requireSsl)
                     s2 == load_sasl_plugin(s1.mem, s1.config, k, ub)
                 IN  IF s2.status = "error"
                     THEN LET fr == qd_server_config_free(s2.mem, s2.config)
                          IN  [mem |-> fr.mem, config |-> fr.config, status |-> "error"]
                     ELSE s2

\* The string fields of qd_config_ssl_profile_t with the entity attribute
\* qd_dispatch_configure_ssl_profile reads each from, in the order it reads.
SslProfileAttrs ==
    <<<<"name", "name">>,
      <<"ssl_certificate_file", "certFile">>,
      <<"ssl_private_key_file", "privateKeyFile">>,
      <<"ssl_password", "password">>,
      <<"ssl_ciphers", "ciphers">>,
      <<"ssl_protocols", "protocols">>,
      <<"ssl_trusted_certificate_db", "caCertFile">>,
      <<"ssl_trusted_certificates", "trustedCertsFile">>,
      <<"ssl_uid_format", "uidFormat">>,
      <<"uid_name_mapping_file", "uidNameMappingFile">>>>

\* obj with each field of pairs set from its attribute of entity e.
RECURSIVE read_attrs(_, _, _, _, _, _)
read_attrs(m, obj, e, pairs, base, k) ==
    IF k > Len(pairs) THEN [mem |-> m, obj |-> obj]
    ELSE LET d == strdup(m, Append(base, pairs[k][1]), e[pairs[k][2]])
         IN  read_attrs(d.mem, [obj EXCEPT ![pairs[k][1]] = d.ptr], e, pairs, base, k + 1)

\* The string with its leading spaces skipped.
RECURSIVE skip_spaces(_)
skip_spaces(str) ==
    IF str # <<>> /\ Head(str) = " " THEN skip_spaces(Tail(str)) ELSE str

\* getenv(name) in the environment environ: NoString when it is not set.
getenv(environ, name) ==
    IF name \in DOMAIN environ THEN environ[name] ELSE NoString

\* The password directive that leaves a missing variable unreported.
process_password_env_soft(m, ssl_profile, base, environ) ==
    LET pw == ssl_profile.ssl_password IN
    IF pw = NullPtr THEN [mem |-> m, ssl_profile |-> ssl_profile, error |-> FALSE]
    ELSE IF m[pw] # <<>> /\ Head(m[pw]) = "env:"
    THEN LET passwd == getenv(environ, skip_spaces(Tail(m[pw])))
         IN  IF passwd # NoString
             THEN LET d == strdup(free(m, pw), Append(base, "ssl_password.env"), passwd)
                  IN  [mem |-> d.mem,
                       ssl_profile |-> [ssl_profile EXCEPT !.ssl_password = d.ptr],
                       error |-> FALSE]
             ELSE [mem |-> m, ssl_profile |-> ssl_profile, error |-> FALSE]
    ELSE IF m[pw] # <<>> /\ Head(m[pw]) = "literal:"
    THEN LET d == strdup(m, Append(base, "ssl_password.literal"), skip_spaces(Tail(m[pw])))
         IN  [mem |-> free(d.mem, pw),
              ssl_profile |-> [ssl_profile EXCEPT !.ssl_password = d.ptr],
              error |-> FALSE]
    ELSE [mem |-> m, ssl_profile |-> ssl_profile, error |-> FALSE]

\* qd_config_ssl_profile_process_password; error: qd_error has been called.
qd_config_ssl_profile_process_password(m, ssl_profile, base, environ) ==
    LET pw == ssl_profile.ssl_password IN
    IF pw = NullPtr THEN [mem |-> m, ssl_profile |-> ssl_profile, error |-> FALSE]
    ELSE IF m[pw] # <<>> /\ Head(m[pw]) = "env:"
    THEN LET passwd == getenv(environ, skip_spaces(Tail(m[pw])))
         IN  IF passwd # NoString
             THEN LET d == strdup(free(m, pw), Append(base, "ssl_password.env"), passwd)
                  IN  [mem |-> d.mem,
                       ssl_profile |-> [ssl_profile EXCEPT !.ssl_password = d.ptr],
                       error |-> FALSE]
             ELSE [mem |-> m, ssl_profile |-> ssl_profile, error |-> TRUE]
    ELSE IF m[pw] # <<>> /\ Head(m[pw]) = "literal:"
    THEN LET d == strdup(m, Append(base, "ssl_password.literal"), skip_spaces(Tail(m[pw])))
         IN  [mem |-> free(d.mem, pw),
              ssl_profile |-> [ssl_profile EXCEPT !.ssl_password = d.ptr],
              error |-> FALSE]
    ELSE [mem |-> m, ssl_profile |-> ssl_profile, error |-> FALSE]

\* The passwordFile block: read only when no password attribute was given.
\* file is what fopen and the read loop find: the file cannot be opened,
\* its first line is empty, or its first line is the pieces of file.
FileUnopenable == <<"<cannot open>">>
read_password_file(m, ssl_profile, e, base, file) ==
    IF ssl_profile.ssl_password # NullPtr
    THEN [mem |-> m, ssl_profile |-> ssl_profile]
    ELSE LET pf == strdup(m, Append(base, "password_file"), e.passwordFile)
         IN  IF pf.ptr # NullPtr /\ file # FileUnopenable /\ file # <<>>
             THEN LET d == strdup(pf.mem, Append(base, "ssl_password.file"), file)
                  IN  [mem |-> free(d.mem, pf.ptr),
                       ssl_profile |-> [ssl_profile EXCEPT !.ssl_password = d.ptr]]
             ELSE [mem |-> free(pf.mem, pf.ptr), ssl_profile |-> ssl_profile]

\* config_ssl_profile_free of the profile with handle h.
config_ssl_profile_free(m, list, objs, h) ==
    [list |-> deq_remove(list, h),
     mem  |-> free_all(m, [i \in 1..Len(SslProfileAttrs) |-> objs[h][SslProfileAttrs[i][1]]]),
     objs |-> [objs EXCEPT ![h].freed = TRUE]]

new_ssl_profile ==
    [f \in {SslProfileAttrs[i][1] : i \in 1..Len(SslProfileAttrs)} |-> NullPtr]
        @@ [freed |-> FALSE]

\* The body of qd_dispatch_configure_ssl_profile on entity e, with the
\* environment and the password file it finds: the memory, the profile
\* objects and the collection it leaves, and the handle it returns (0 after
\* the error path).
configure_ssl_profile(m, objs, list, e, environ, file) ==
    LET h     == Len(objs) + 1
        base  == <<"ssl_profile", h>>
        pairs == SslProfileAttrs
        r1 == read_attrs(m, new_ssl_profile, e, SubSeq(pairs, 1, 4), base, 1)
        r2 == read_password_file(r1.mem, r1.obj, e, base, file)
        r3 == read_attrs(r2.mem, r2.ssl_profile, e, SubSeq(pairs, 5, 10), base, 1)
        r4 == qd_config_ssl_profile_process_password(r3.mem, r3.obj, base, environ)
        inserted == Append(list, h)
        created  == Append(objs, r4.ssl_profile)
    IN  IF r4.error
        THEN LET fr == config_ssl_profile_free(r4.mem, inserted, created, h)
             IN  [mem |-> fr.mem, sslp |-> fr.objs,
                  config_ssl_profiles |-> fr.list, handle |-> 0]
        ELSE [mem |-> r4.mem, sslp |-> created,
              config_ssl_profiles |-> inserted, handle |-> h]

\* qd_dispatch_configure_ssl_profile on an entity of Es, with an
\* environment of Environs and a password file of Files.
qd_dispatch_configure_ssl_profile(Es, Environs, Files) ==
    /\ proc = "running"
    /\ Len(sslp) < MaxProfiles
    /\ \E e \in Es, environ \in Environs, file \in Files :
          LET r == configure_ssl_profile(mem, sslp, config_ssl_profiles,
                                         e, environ, file)
          IN  /\ mem' = r.mem
              /\ sslp' = r.sslp
              /\ config_ssl_profiles' = r.config_ssl_profiles
    /\ UNCHANGED <<saslp, config_sasl_plugins, configs, log_vars>>
    /\ UNCHANGED <<size_t_bytes, ndebug, entity, config, cfg_status, trunc_warning>>
    /\ UNCHANGED <<fo_vars, li_vars, ct_vars, proc>>

\* qd_connection_manager_delete_ssl_profile on a handle of the collection.
qd_connection_manager_delete_ssl_profile(h) ==
    /\ proc = "running"
    /\ h \in Range(config_ssl_profiles)
    /\ LET fr == config_ssl_profile_free(mem, config_ssl_profiles, sslp, h)
       IN  /\ mem' = fr.mem
           /\ sslp' = fr.objs
           /\ config_ssl_profiles' = fr.list
    /\ UNCHANGED <<saslp, config_sasl_plugins, configs, log_vars>>
    /\ UNCHANGED <<size_t_bytes, ndebug, entity, config, cfg_status, trunc_warning>>
    /\ UNCHANGED <<fo_vars, li_vars, ct_vars, proc>>

\* qd_config_sasl_plugin_t after ZERO.
new_sasl_plugin ==
    [name |-> NullPtr, auth_service |-> NullPtr, sasl_init_hostname |-> NullPtr,
     auth_ssl_profile |-> NullPtr, freed |-> FALSE]

\* config_sasl_plugin_free of the plugin with handle h.
config_sasl_plugin_free(m, list, objs, h) ==
    [list |-> deq_remove(list, h),
     mem  |-> free_all(m, <<objs[h].name, objs[h].auth_service,
                            objs[h].sasl_init_hostname, objs[h].auth_ssl_profile>>),
     objs |-> [objs EXCEPT ![h].freed = TRUE]]

\* qd_dispatch_configure_sasl_plugin on an entity of Es.  The host and port
\* attributes are read into blocks that are freed again; auth_service is
\* "host:port" when both are given and not empty, else authService.
qd_dispatch_configure_sasl_plugin(Es) ==
    /\ proc = "running"
    /\ Len(saslp) < MaxPlugins
    /\ \E e \in Es :
          LET h     == Len(saslp) + 1
              at(f) == <<"sasl_plugin", h, f>>
              n  == strdup(mem, at("name"), e.name)
              ah == strdup(n.mem, at("auth_host"), e.host)
              ap == strdup(ah.mem, at("auth_port"), e.port)
              composed == ah.ptr # NullPtr /\ ap.ptr # NullPtr
                             /\ Len(e.host) > 0 /\ Len(e.port) > 0
              m1 == IF composed
                    THEN malloc(ap.mem, at("auth_service"), (e.host \o <<":">>) \o e.port)
                    ELSE ap.mem
              m2 == free(free(m1, ah.ptr), ap.ptr)
              as == IF composed THEN [mem |-> m2, ptr |-> at("auth_service")]
                    ELSE strdup(m2, at("auth_service"), e.authService)
              rl == strdup(as.mem, at("sasl_init_hostname"), e.realm)
              sp == strdup(rl.mem, at("auth_ssl_profile"), e.sslProfile)
          IN  /\ mem' = sp.mem
              /\ saslp' = Append(saslp,
                     [new_sasl_plugin EXCEPT !.name = n.ptr, !.auth_service = as.ptr,
                                             !.sasl_init_hostname = rl.ptr,
                                             !.auth_ssl_profile = sp.ptr])
              /\ config_sasl_plugins' = Append(config_sasl_plugins, h)
    /\ UNCHANGED <<sslp, config_ssl_profiles, configs, log_vars>>
    /\ UNCHANGED <<size_t_bytes, ndebug, entity, config, cfg_status, trunc_warning>>
    /\ UNCHANGED <<fo_vars, li_vars, ct_vars, proc>>

\* qd_connection_manager_delete_sasl_plugin on a handle of the collection.
qd_connection_manager_delete_sasl_plugin(h) ==
    /\ proc = "running"
    /\ h \in Range(config_sasl_plugins)
    /\ LET fr == config_sasl_plugin_free(mem, config_sasl_plugins, saslp, h)
       IN  /\ mem' = fr.mem
           /\ saslp' = fr.objs
           /\ config_sasl_plugins' = fr.list
    /\ UNCHANGED <<sslp, config_ssl_profiles, configs, log_vars>>
    /\ UNCHANGED <<size_t_bytes, ndebug, entity, config, cfg_status, trunc_warning>>
    /\ UNCHANGED <<fo_vars, li_vars, ct_vars, proc>>

\* qd_dispatch_configure_listener on an entity of Es that may name
\* profiles and carries no failoverUrls.  configs keeps, for each call, the
\* entity, the status and the profile part of the config it left.
qd_dispatch_configure_listener_profiles(Es) ==
    /\ proc = "running" /\ mgmt_pc = "idle"
    /\ Len(li) < MaxListeners /\ Len(configs) < MaxEndpoints
    /\ \E e \in Es, ub \in NullDerefOutcomes :
          LET k == Len(configs) + 1
              r == load_server_config_profiles(mem, e, k, size_t_bytes, ~ndebug, ub)
              created == r.status = "ok"
              h == IF created THEN Len(li) + 1 ELSE 0
          IN  /\ mem' = r.mem
              /\ configs' = Append(configs,
                     [kind |-> "listener", entity |-> e, status |-> r.status,
                      config |-> r.config, handle |-> h,
                      conn_info_list |-> <<>>])
              /\ proc' = IF r.status \in {"crash", "abort"} THEN "crashed" ELSE proc
              /\ IF created
                 THEN /\ li' = Append(li, new_listener)
                      /\ listeners' = Append(listeners, h)
                 ELSE UNCHANGED <<li, listeners>>
    /\ UNCHANGED <<sslp, config_ssl_profiles, saslp, config_sasl_plugins, log_vars>>
    /\ UNCHANGED <<size_t_bytes, ndebug, entity, config, cfg_status, trunc_warning>>
    /\ UNCHANGED <<first_start, last_start, fo_vars, ct_vars>>

\* The item qd_dispatch_configure_connector puts first in conn_info_list.
first_item(cf, e) ==
    [scheme |-> IF cf.ssl_required THEN "amqps" ELSE "amqp",
     host_port |-> "127.0.0.1:" \o e.port]

\* qd_dispatch_configure_connector on an entity of Es that may name profiles.
qd_dispatch_configure_connector_profiles(Es) ==
    /\ proc = "running" /\ mgmt_pc = "idle"
    /\ Len(ct) < MaxConnectors /\ Len(configs) < MaxEndpoints
    /\ \E e \in Es, ub \in NullDerefOutcomes :
          LET k == Len(configs) + 1
              r == load_server_config_profiles(mem, e, k, size_t_bytes, ~ndebug, ub)
              created == r.status = "ok"
              h == IF created THEN Len(ct) + 1 ELSE 0
          IN  /\ mem' = r.mem
              /\ configs' = Append(configs,
                     [kind |-> "connector", entity |-> e, status |-> r.status,
                      config |-> r.config, handle |-> h,
                      conn_info_list |-> IF created THEN <<first_item(r.config, e)>> ELSE <<>>])
              /\ proc' = IF r.status \in {"crash", "abort"} THEN "crashed" ELSE proc
              /\ IF created
                 THEN /\ ct' = Append(ct, new_connector)
                      /\ ct_lock' = Append(ct_lock, "")
                      /\ connectors' = Append(connectors, h)
                 ELSE UNCHANGED <<ct, ct_lock, connectors>>
    /\ UNCHANGED <<sslp, config_ssl_profiles, saslp, config_sasl_plugins, log_vars>>
    /\ UNCHANGED <<size_t_bytes, ndebug, entity, config, cfg_status, trunc_warning>>
    /\ UNCHANGED <<cx, mgmt_pc, impl, li_vars, fo_vars>>

\* The sslProfile entities of the registry: profiles of different content
\* (v) under one name, each without a protocol list.
TlsProfileEntity(n, v) ==
    [name |-> <<n>>, certFile |-> <<"cert", v>>, privateKeyFile |-> <<"key", v>>,
     password |-> <<"pw", v>>, passwordFile |-> NoString,
     ciphers |-> <<"ciphers", v>>, protocols |-> NoString,
     caCertFile |-> <<"ca", v>>, trustedCertsFile |-> <<"trusted", v>>,
     uidFormat |-> <<"uid", v>>, uidNameMappingFile |-> <<"map", v>>]

TlsProfileEntities == {TlsProfileEntity("tls-a", v) : v \in {"1", "2"}}

\* The authServicePlugin entities: one name, with and without an sslProfile.
PluginEntities ==
    {[name |-> <<"auth">>, host |-> <<"h">>, port |-> <<"5671">>,
      authService |-> NoString, realm |-> <<"realm">>, sslProfile |-> p] :
        p \in {NoString, <<"tls-a">>}}

NoEnvironment == <<>>

\* The registry operations around endpoints that name tls-a and auth.
NextRegistry ==
    \/ qd_dispatch_configure_ssl_profile(TlsProfileEntities, {NoEnvironment},
                                         {FileUnopenable})
    \/ \E h \in DOMAIN sslp : qd_connection_manager_delete_ssl_profile(h)
    \/ qd_dispatch_configure_sasl_plugin(PluginEntities)
    \/ \E h \in DOMAIN saslp : qd_connection_manager_delete_sasl_plugin(h)
    \/ qd_dispatch_configure_listener_profiles(RegistryListeners)
    \/ qd_dispatch_configure_connector_profiles(RegistryConnectors)

SpecRegistry == Init /\ [][NextRegistry]_vars

\* The resolution of every kind of endpoint entity, in a registry of one
\* profile content and one plugin without a profile of its own.
NextResolve ==
    \/ qd_dispatch_configure_ssl_profile({TlsProfileEntity("tls-a", "1")},
                                         {NoEnvironment}, {FileUnopenable})
    \/ \E h \in DOMAIN sslp : qd_connection_manager_delete_ssl_profile(h)
    \/ qd_dispatch_configure_sasl_plugin(
           {e \in PluginEntities : e.sslProfile = NoString})
    \/ \E h \in DOMAIN saslp : qd_connection_manager_delete_sasl_plugin(h)
    \/ qd_dispatch_configure_listener_profiles(ResolveListeners)
    \/ qd_dispatch_configure_connector_profiles(ResolveConnectors)

SpecResolve == Init /\ [][NextResolve]_vars

\* The sslProfile entities that differ in how the password is given: in a
\* file, in an environment variable (with and without spaces after the
\* directive), or after the literal: directive.
PasswordEntity(pw, pf) ==
    [TlsProfileEntity("tls-a", "1") EXCEPT !.password = pw, !.passwordFile = pf]

PasswordEntities ==
    {PasswordEntity(NoString, <<"pwfile">>),
     PasswordEntity(<<"env:", " ", "PW">>, NoString),
     PasswordEntity(<<"env:", "PW">>, <<"pwfile">>),
     PasswordEntity(<<"literal:", " ", " ", "s3">>, NoString)}

\* The environments: PW not set, PW set, PW set to the empty string.
PasswordEnvirons == {NoEnvironment, <<"PW">> :> <<"secret">>, <<"PW">> :> <<>>}

\* The password files: one that cannot be opened, one whose first line is
\* empty, one whose first line is a password.
PasswordFiles == {FileUnopenable, <<>>, <<"file", "pw">>}

\* Registrations and deletions of TLS profiles whose password needs
\* resolving.
NextPassword ==
    \/ qd_dispatch_configure_ssl_profile(PasswordEntities, PasswordEnvirons,
                                         PasswordFiles)
    \/ \E h \in DOMAIN sslp : qd_connection_manager_delete_ssl_profile(h)

SpecPassword == Init /\ [][NextPassword]_vars

(***************************************************************************)
(* Deleting a listener                                                     *)
(***************************************************************************)

\* pn_listener_close on the accept channel of listener l.
pn_listener_close(l) == [l EXCEPT !.closing = TRUE]

\* qd_listener_decref by the manager.
qd_listener_decref(l) == [l EXCEPT !.released = @ + 1]

\* The close test that ignores whether the listener is accepting.
should_close_always(l) == TRUE

\* The test of delete_listener before pn_listener_close.
should_close(l) == l.pn_listener

\* qd_connection_manager_delete_listener on a handle of the collection, up
\* to and including the close of the accept channel.
delete_listener_close(l) ==
    /\ proc = "running" /\ mgmt_pc = "idle"
    /\ l \in Range(listeners)
    /\ li' = IF should_close(li[l])
             THEN [li EXCEPT ![l] = pn_listener_close(@)]
             ELSE li
    /\ mgmt_pc' = "dl_remove"
    /\ impl' = l
    /\ UNCHANGED <<listeners, first_start, last_start, connectors, ct, ct_lock,
                   cx, fo_vars, cfg_vars, proc>>

\* DEQ_REMOVE(qd->connection_manager->listeners, li)
delete_listener_remove ==
    /\ proc = "running" /\ mgmt_pc = "dl_remove"
    /\ listeners' = deq_remove(listeners, impl)
    /\ mgmt_pc' = "dl_decref"
    /\ UNCHANGED <<li, first_start, last_start, connectors, ct, ct_lock, cx,
                   impl, fo_vars, cfg_vars, proc>>

\* qd_listener_decref(li), and the return.
delete_listener_decref ==
    /\ proc = "running" /\ mgmt_pc = "dl_decref"
    /\ li' = [li EXCEPT ![impl] = qd_listener_decref(@)]
    /\ mgmt_pc' = "idle"
    /\ impl' = 0
    /\ UNCHANGED <<listeners, first_start, last_start, connectors, ct, ct_lock,
                   cx, fo_vars, cfg_vars, proc>>

\* The management agent creates listeners and connectors, starts them and
\* deletes listeners while the driver reports the accept channels that end.
NextListeners ==
    \/ qd_dispatch_configure_listener
    \/ qd_dispatch_configure_connector
    \/ qd_connection_manager_start
    \/ \E l \in DOMAIN li : listener_closed(l)
    \/ \E l \in DOMAIN li : delete_listener_close(l)
    \/ delete_listener_remove
    \/ delete_listener_decref

SpecListeners == Init /\ [][NextListeners]_vars

(***************************************************************************)
(* Message logging components                                              *)
(***************************************************************************)

\* The longest messageLoggingComponents value, in pieces.
MaxLogLen == 3

qd_log_message_components ==
    <<"message-id", "user-id", "to", "subject", "reply-to", "correlation-id",
      "content-type", "content-encoding", "absolute-expiry-time",
      "creation-time", "group-id", "group-sequence", "reply-to-group-id",
      "app-properties">>

ALL == "all"
NONE == "none"
INT32_MAX == 2147483647

\* A value is a sequence of pieces: the delimiter, or text without one.
delim == ","
LogPieces == {delim, "message-id", "to", "app-properties", ALL, NONE, "bogus", " "}

RECURSIVE SeqsUpTo(_, _)
SeqsUpTo(S, n) ==
    IF n = 0 THEN {<<>>}
    ELSE LET shorter == SeqsUpTo(S, n - 1)
         IN  shorter \cup {Append(q, x) : q \in {r \in shorter : Len(r) = n - 1}, x \in S}

LogMessages == {NoString} \cup SeqsUpTo(LogPieces, MaxLogLen)

\* The characters of a value, as one string.
RECURSIVE c_str(_)
c_str(pieces) == IF pieces = <<>> THEN "" ELSE Head(pieces) \o c_str(Tail(pieces))

\* strtok(str, ",") and the strtok(NULL, ",") calls after it: the tokens
\* found in pieces, in order; token is the text collected since the last
\* delimiter, "" when there is none.
RECURSIVE strtok(_, _)
strtok(pieces, token) ==
    IF pieces = <<>> THEN (IF token = "" THEN <<>> ELSE <<token>>)
    ELSE IF Head(pieces) = delim
         THEN (IF token = "" THEN <<>> ELSE <<token>>) \o strtok(Tail(pieces), "")
         ELSE strtok(Tail(pieces), token \o Head(pieces))

\* The string log_message points to after strtok has put a terminator at
\* the delimiter that ends the first token; seen is TRUE once a character
\* of the first token has been passed.
RECURSIVE strtok_buffer(_, _)
strtok_buffer(pieces, seen) ==
    IF pieces = <<>> THEN <<>>
    ELSE IF Head(pieces) = delim
         THEN (IF seen THEN <<>> ELSE <<delim>> \o strtok_buffer(Tail(pieces), FALSE))
         ELSE <<Head(pieces)>> \o strtok_buffer(Tail(pieces), TRUE)

\* (v >> i) & 1
bit(v, i) == (v \div (2 ^ i)) % 2

\* The for loop of populate_log_message on one token, from index i.
RECURSIVE or_bits(_, _, _)
or_bits(ret_val, token, i) ==
    IF i >= Len(qd_log_message_components) THEN ret_val
    ELSE IF qd_log_message_components[i + 1] = token
         THEN or_bits(IF bit(ret_val, i) = 1 THEN ret_val ELSE ret_val + 2 ^ i,
                      token, i + 1)
         ELSE or_bits(ret_val, token, i + 1)

\* The while loop of populate_log_message over the tokens, from the k-th.
RECURSIVE walk_tokens(_, _, _)
walk_tokens(ret_val, tokens, k) ==
    IF k > Len(tokens) THEN ret_val
    ELSE walk_tokens(or_bits(ret_val, tokens[k], 0), tokens, k + 1)

\* populate_log_message without the case of the whole string "all".
populate_log_message_without_all(str) ==
    IF str = NoString \/ c_str(str) = NONE
    THEN [ret_val |-> 0, log_message |-> str]
    ELSE [ret_val |-> walk_tokens(0, strtok(str, ""), 1),
          log_message |-> strtok_buffer(str, FALSE)]

\* populate_log_message: the bits, and the string it leaves in
\* config->log_message.
populate_log_message(str) ==
    IF str = NoString \/ c_str(str) = NONE
    THEN [ret_val |-> 0, log_message |-> str]
    ELSE IF c_str(str) = ALL
    THEN [ret_val |-> INT32_MAX, log_message |-> str]
    ELSE [ret_val |-> walk_tokens(0, strtok(str, ""), 1),
          log_message |-> strtok_buffer(str, FALSE)]

\* is_log_component_enabled from index i on.
RECURSIVE is_log_component_enabled_from(_, _, _)
is_log_component_enabled_from(bits, component_name, i) ==
    IF i >= Len(qd_log_message_components) THEN FALSE
    ELSE IF component_name = qd_log_message_components[i + 1]
         THEN bit(bits, i) = 1
         ELSE is_log_component_enabled_from(bits, component_name, i + 1)

is_log_component_enabled(bits, component_name) ==
    is_log_component_enabled_from(bits, component_name, 0)

\* load_server_config line 309: config->log_bits = populate_log_message(config).
load_log_bits ==
    /\ log_bits = -1
    /\ LET r == populate_log_message(log_message)
       IN  /\ log_bits' = r.ret_val
           /\ log_message' = r.log_message
    /\ UNCHANGED <<log_enabled, size_t_bytes, ndebug, entity, config, cfg_status,
                   trunc_warning, reg_vars, fo_vars, li_vars, ct_vars, proc>>

\* A caller asks whether a component is to be logged.
ComponentNames == Range(qd_log_message_components) \cup {"bogus", ALL}

log_component_query(component_name) ==
    /\ log_bits # -1
    /\ log_enabled' = <<component_name,
                        is_log_component_enabled(log_bits, component_name)>>
    /\ UNCHANGED <<log_message, log_bits, size_t_bytes, ndebug, entity, config,
                   cfg_status, trunc_warning, reg_vars, fo_vars, li_vars,
                   ct_vars, proc>>

\* The configuration has read messageLoggingComponents (line 308) and is
\* about to compute the bits.
InitLog ==
    /\ IdleFailoverVars
    /\ IdleBuildVars({8}, {TRUE})
    /\ InitLifecycleVars
    /\ log_message \in LogMessages
    /\ log_bits = -1
    /\ log_enabled = <<>>

NextLog ==
    \/ load_log_bits
    \/ \E n \in ComponentNames : log_component_query(n)

SpecLog == InitLog /\ [][NextLog]_vars

(***************************************************************************)
(* Claims                                                                  *)
(***************************************************************************)

\* The text of one item: scheme://host_port with absent parts left out.
ItemText(item) ==
    (IF item.scheme # NULL THEN item.scheme \o "://" ELSE "")
        \o (IF item.host_port # NULL THEN item.host_port ELSE "")

\* The items of list from position p to the tail, then from the head to p-1.
Rotation(list, p) ==
    [k \in 1..Len(list) |-> list[((p - 1 + (k - 1)) % Len(list)) + 1]]

RECURSIVE JoinFrom(_, _)
JoinFrom(list, k) ==
    IF k > Len(list) THEN ""
    ELSE IF k = Len(list) THEN ItemText(list[k])
    ELSE (ItemText(list[k]) \o ", ") \o JoinFrom(list, k + 1)

\* C1: for a non-empty failover list of N items and a starting position p in
\* 1..N, a refresh writes all N items once each, joined by ", ", from item p
\* to the tail and then from the head to item p-1.
C1_RefreshRotation ==
    [][(qd_entity_refresh_connector
          /\ Len(conn_info_list) >= 1 /\ conn_index \in 1..Len(conn_info_list))
        => failoverUrls' = JoinFrom(Rotation(conn_info_list, conn_index), 1)]_vars

C1_Witness ==
    /\ Len(conn_info_list) = 3
    /\ conn_index = 2
    /\ failoverUrls = JoinFrom(<<conn_info_list[2], conn_info_list[3], conn_info_list[1]>>, 1)
    /\ conn_info_list[1] # conn_info_list[2]
    /\ conn_info_list[2] # conn_info_list[3]
    /\ conn_info_list[1] # conn_info_list[3]

StartConnecting == {"CONNECTING", "OPEN"}

\* The step calls qd_listener_listen on listener l: the call fails, or the
\* listener starts accepting.
ListenCalled(l) ==
    l \in last_start'.failed \/ (~li[l].pn_listener /\ li'[l].pn_listener)

\* C2: start() calls listen only on listeners that are not accepting and
\* connect only on connectors that are neither connecting nor open; a
\* listener that is accepting or a connector that is connecting or open gets
\* no attempt from a start() and keeps its state.
C2_NoDuplicateAttempt ==
    [][qd_connection_manager_start =>
        /\ \A l \in DOMAIN li :
              li[l].pn_listener =>
                  /\ ~ListenCalled(l)
                  /\ li'[l].pn_listener
                  /\ li'[l].exit_on_error = li[l].exit_on_error
        /\ \A c \in DOMAIN ct :
              ct[c].state \in StartConnecting =>
                  ct'[c] = ct[c]
        /\ \A l \in DOMAIN li : ListenCalled(l) => ~li[l].pn_listener
        /\ \A c \in DOMAIN ct :
              ct'[c] # ct[c] =>
                  /\ ct[c].state \notin StartConnecting
                  /\ ct'[c] = qd_connector_connect(ct[c])
      ]_vars

C2_Witness ==
    /\ ~first_start
    /\ \E l \in Range(listeners) :
          li[l].pn_listener /\ li[l].passes = 2 /\ li[l].exit_on_error
    /\ \E c \in Range(connectors) :
          ct[c].state = "OPEN" /\ ~ct[c].pending

\* C3: a second delete_connector on a handle whose live context the first
\* call already cleared does not crash, does not detach the connector again,
\* does not enqueue a second deferred close and releases the manager's
\* reference once in total.
C3_SecondDeleteSafe ==
    \A c \in DOMAIN ct :
        (\E x \in DOMAIN cx : cx[x].of = c /\ cx[x].connector = 0) =>
            /\ ~(proc = "crashed" /\ impl = c)
            /\ ct[c].detached <= 1
            /\ ct[c].released <= 1
            /\ \A x \in DOMAIN cx : cx[x].of = c => cx[x].enqueued <= 1

\* C4: a bind failure ends the process only in the first start() pass that
\* reaches the listener; in any other pass the failure leaves the process
\* running and the listener not accepting and in the collection, and the
\* next start() attempts it again.
C4_BindFailure ==
    [][qd_connection_manager_start =>
        /\ proc' = "exited" =>
              \E l \in last_start'.failed : li[l].passes = 0
        /\ \A l \in last_start'.failed :
              li[l].passes > 0 =>
                  /\ proc' = "running"
                  /\ ~li'[l].pn_listener
                  /\ l \in Range(listeners')
        /\ \A l \in last_start.failed :
              (l \in Range(listeners) /\ li[l].passes = 2) =>
                  ListenCalled(l)
      ]_vars

C4_Witness ==
    /\ proc = "running"
    /\ \E l \in last_start.failed :
          /\ li[l].passes = 2
          /\ ~li[l].pn_listener
          /\ l \in Range(listeners)

\* The step in which the thread of context x runs the deferred close.
RunsDeferred(x) == cx[x].deferred # <<>> /\ cx'[x].deferred = <<>> /\ cx'[x].invoked = "run"

\* C5: delete_connector never closes a transport itself: for a connector
\* with a live context it clears the back-reference and, when the context
\* has a transport, queues the close on the context; a transport is closed
\* only by the thread of its own context.
C5_DeferredHandoff ==
    /\ [](\A x \in DOMAIN cx : cx[x].pn_conn = "closed" => cx[x].closed_by = "conn")
    /\ [][delete_connector_locked =>
            LET x == ct[impl].ctx
            IN  x # 0 =>
                  /\ cx'[x].connector = 0
                  /\ cx'[x].pn_conn = cx[x].pn_conn
                  /\ cx'[x].closed_by = cx[x].closed_by
                  /\ cx'[x].deferred =
                        IF cx[x].pn_conn # "null"
                        THEN Append(cx[x].deferred,
                                    [call |-> "deferred_close", context |-> x])
                        ELSE cx[x].deferred
         ]_vars

C5_Witness ==
    \E x \in DOMAIN cx :
        /\ cx[x].connector = 0
        /\ cx[x].enqueued = 1
        /\ cx[x].pn_conn = "closed"
        /\ cx[x].closed_by = "conn"

\* C6 as stated: the deferred close never runs while the deleting thread
\* still holds the lock of the connector.
C6_NeverRunsUnderLock ==
    [][\A x \in DOMAIN cx : RunsDeferred(x) => ct_lock[cx[x].of] # "mgmt"]_vars

\* C6 amended: the deleting thread holds the lock of the connector exactly
\* from its lock step to its unlock step, that is while it reads and clears
\* the back-reference and queues the close; it never runs the deferred close
\* and its unlock never waits for it, while the thread of the context may
\* run the close before the lock is released.
C6_LockScope ==
    /\ [](\A c \in DOMAIN ct :
            ct_lock[c] = "mgmt" <=> (impl = c /\ mgmt_pc \in {"dc_locked", "dc_unlock"}))
    /\ [](mgmt_pc = "dc_unlock" /\ proc = "running" => ENABLED delete_connector_unlock)
    /\ [][\A x \in DOMAIN cx : RunsDeferred(x) => UNCHANGED <<mgmt_pc, ct_lock>>]_vars

C6_Witness ==
    /\ mgmt_pc = "dc_unlock"
    /\ ct_lock[impl] = "mgmt"
    /\ \E x \in DOMAIN cx :
          cx[x].of = impl /\ cx[x].invoked = "run" /\ cx[x].pn_conn = "closed"

\* C7 as stated: once the deferred close of a context has been invoked, on
\* the discard path too, the transport of the context is closed.
C7_InvokedCloses ==
    \A x \in DOMAIN cx :
        (cx[x].enqueued > 0 /\ cx[x].deferred = <<>>) => cx[x].pn_conn = "closed"

\* C7 amended: under fair scheduling of the connection's thread every
\* deferred close queued by delete_connector is eventually invoked, also
\* after the connector has been detached and released, unless the process
\* exits first; invoked on the normal path it closes the transport, invoked
\* on the discard path it leaves the transport as it is.
C7_DeferredCloseInvoked ==
    /\ \A x \in 1..MaxConnections :
          (x \in DOMAIN cx /\ cx[x].deferred # <<>>)
              ~> \/ proc # "running"
                 \/ x \in DOMAIN cx /\ cx[x].deferred = <<>> /\ cx[x].invoked # ""
    /\ [](\A x \in DOMAIN cx : cx[x].invoked = "run" => cx[x].pn_conn = "closed")
    /\ [][\A x \in DOMAIN cx :
            (cx[x].deferred # <<>> /\ cx'[x].invoked = "discard") =>
                cx'[x].pn_conn = cx[x].pn_conn]_vars

C7_Witness ==
    \E x \in DOMAIN cx :
        /\ cx[x].enqueued = 1
        /\ cx[x].invoked = "run"
        /\ cx[x].pn_conn = "closed"
        /\ cx[x].of \notin Range(connectors)
        /\ ct[cx[x].of].released = 1

\* The entity carries every required attribute, so that resolution reaches
\* the capacity and annotation steps.
EntityComplete(e) ==
    e.port # NULL /\ e.maxFrameSize # <<>> /\ e.maxSessions # <<>>

Resolved == cfg_status # "none" /\ EntityComplete(entity)

\* The pair (strip-in, strip-out) the specification gives for a setting.
StripPair(s) ==
    IF s = "in" THEN <<TRUE, FALSE>>
    ELSE IF s = "out" THEN <<FALSE, TRUE>>
    ELSE IF s = "no" THEN <<FALSE, FALSE>>
    ELSE <<TRUE, TRUE>>

\* C8: resolution maps stripAnnotations "both", "in", "out", "no" to
\* (true,true), (true,false), (false,true), (false,false) and every other
\* value, absent or unrecognized, to (true,true), and completes normally.
C8_StripMapping ==
    Resolved =>
        /\ cfg_status = "ok"
        /\ <<config.strip_inbound_annotations, config.strip_outbound_annotations>>
               = StripPair(entity.stripAnnotations)

Max(a, b) == IF a < b THEN b ELSE a

\* A number of eight bytes as one of sixteen.
Widen(a) == a \o [i \in 1..8 |-> 0]

\* The sixteen-byte number does not fit in n bytes.
Exceeds(p, n) == \E i \in (n + 1)..Len(p) : p[i] # 0

\* The exact product override * max-frame-size of the resolved entity.
Candidate == exact_product(entity.maxSessionFrames, u64(config.max_frame_size))

\* C9: with a non-zero session-frame-count override the candidate is the
\* exact product override * max-frame-size; at or over an applicable platform
\* limit the capacity is the limit and the warning reports limit /
\* max-frame-size, otherwise the capacity is max(candidate, 512); a product
\* that overflows never yields a wrapped value, it clamps with a warning.
C9_OverrideCapacity ==
    (Resolved /\ cfg_status = "ok" /\ entity.maxSessionFrames # u64(0)) =>
        LET limit == capacity_limit(size_t_bytes)
            f     == config.max_frame_size
        IN  IF Exceeds(Candidate, 8)
            THEN /\ trunc_warning # -1
                 /\ limit # 0 => config.incoming_capacity = u64(limit)
            ELSE IF limit # 0 /\ ~less_u64(Candidate, Widen(u64(limit)))
            THEN /\ config.incoming_capacity = u64(limit)
                 /\ trunc_warning = limit \div f
            ELSE /\ Widen(config.incoming_capacity) =
                       (IF less_u64(Candidate, Widen(u64(512)))
                        THEN Widen(u64(512)) ELSE Candidate)
                 /\ trunc_warning = -1

\* The exact product 0x7FFFFFFF * max-frame-size, the frame size raised to
\* the floor of 512 first.
Unbounded ==
    exact_product(u64(2147483647), u64(Max(entity.maxFrameSize[1], 512)))

NoOverride == Resolved /\ cfg_status = "ok" /\ entity.maxSessionFrames = u64(0)

\* C10 as stated: with no session-frame-count override the capacity is
\* 0x7FFFFFFF * max-frame-size (floored) where the product fits in a size_t,
\* and zero where it does not.
C10_SaturatesToZero ==
    NoOverride =>
        Widen(config.incoming_capacity) =
            (IF Exceeds(Unbounded, size_t_bytes) THEN Widen(u64(0)) ELSE Unbounded)

\* C10 amended: with no session-frame-count override the capacity is
\* 0x7FFFFFFF * max-frame-size, the frame size raised to 512 first, where
\* size_t has eight bytes, and 0x7FFFFFFF itself where size_t is narrower.
C10_NoOverrideCapacity ==
    NoOverride =>
        /\ config.max_frame_size = Max(entity.maxFrameSize[1], 512)
        /\ Widen(config.incoming_capacity) =
               (IF size_t_bytes < 8 THEN Widen(u64(2147483647)) ELSE Unbounded)

C10_Witness ==
    /\ NoOverride
    /\ entity.maxFrameSize = <<0>>
    /\ size_t_bytes = 8
    /\ config.incoming_capacity = mul_u64(u64(2147483647), u64(512))

\* What an endpoint reads through the pointers of a TLS slot: the content
\* of each block, NoString for a null field.
Material(slot, m) ==
    [f \in Range(TlsFields) |-> IF slot[f] = NullPtr THEN NoString ELSE m[slot[f]]]

\* Every pointer of a TLS slot is null or the address of a block of a config.
OwnBlocks(slot) ==
    \A f \in Range(TlsFields) : slot[f] = NullPtr \/ slot[f][1] = "config"

\* C11: once an endpoint is resolved, no later operation - deleting a TLS
\* profile, registering another one of the same name, registering or
\* deleting a plugin, configuring another endpoint - changes any TLS field
\* of its configuration, and no TLS field of a resolved configuration points
\* into a profile object.
C11_CopySemantics ==
    /\ [][\A k \in DOMAIN configs :
            configs[k].status = "ok" =>
                /\ configs'[k] = configs[k]
                /\ Material(configs'[k].config.tls, mem')
                       = Material(configs[k].config.tls, mem)
                /\ Material(configs'[k].config.sasl_plugin_config.tls, mem')
                       = Material(configs[k].config.sasl_plugin_config.tls, mem)
         ]_vars
    /\ [](\A k \in DOMAIN configs :
            configs[k].status = "ok" =>
                /\ OwnBlocks(configs[k].config.tls)
                /\ OwnBlocks(configs[k].config.sasl_plugin_config.tls))

\* An endpoint resolved against the first profile tls-a still reads that
\* profile's material after the profile was deleted and another profile of
\* the same name, with other content, was registered.
C11_Witness ==
    /\ Len(sslp) = 2 /\ sslp[1].freed /\ ~sslp[2].freed
    /\ mem[sslp[2].name] = <<"tls-a">>
    /\ mem[sslp[2].ssl_certificate_file] = <<"cert", "2">>
    /\ \E k \in DOMAIN configs :
          /\ configs[k].status = "ok"
          /\ Material(configs[k].config.tls, mem).ssl_certificate_file = <<"cert", "1">>
          /\ Material(configs[k].config.tls, mem).ssl_protocols = NoString

\* The configuration the step has just resolved, when the step is a
\* configure operation of an endpoint.
Resolves == Len(configs') = Len(configs) + 1

JustResolved == configs'[Len(configs')]

\* The blocks of the config of endpoint k that are allocated and not freed.
LiveBlocks(m, k) ==
    {a \in DOMAIN m : a[1] = "config" /\ a[2] = k /\ m[a] # FREED}

\* C12: an endpoint that names a TLS profile that is not registered (and no
\* plugin) resolves, with every TLS field of its own slot empty; an endpoint
\* that names an auth plugin that is not registered fails, the handle is not
\* added to its collection, and every block allocated for the configuration
\* so far has been released.
C12_LookupFailure ==
    [][Resolves =>
         LET c == JustResolved
             e == c.entity
         IN  /\ (/\ e.sslProfile # NoString
                 /\ qd_find_ssl_profile(mem, e.sslProfile) = 0
                 /\ e.saslPlugin = NoString
                 /\ resolved_attributes[e, size_t_bytes, ~ndebug].status = "ok")
                 => /\ c.status = "ok"
                    /\ c.handle # 0
                    /\ \A f \in Range(TlsFields) : c.config.tls[f] = NullPtr
             /\ (/\ e.saslPlugin # NoString
                 /\ qd_find_sasl_plugin(mem, e.saslPlugin) = 0
                 /\ resolved_attributes[e, size_t_bytes, ~ndebug].status = "ok")
                 => /\ c.status = "error"
                    /\ c.handle = 0
                    /\ listeners' = listeners /\ connectors' = connectors
                    /\ c.config = ZeroProfileConfig
                    /\ LiveBlocks(mem', Len(configs')) = {}
    ]_vars

\* The step is the registration of a TLS profile (it allocates a profile
\* object), and h is the object it allocates.
Registers == Len(sslp') = Len(sslp) + 1

\* The registration returned a handle: the object is in the collection
\* and has not been freed.
Registered(h) == h \in Range(config_ssl_profiles') /\ ~sslp'[h].freed

\* The statement of C13 as written: no registration ever aborts.
C13_AlwaysSoft ==
    [][Registers => Registered(Len(sslp'))]_vars

\* The password directive of e names a variable that environ does not set.
EnvMissing(e, environ) ==
    /\ e.password # NoString
    /\ Head(e.password) = "env:"
    /\ skip_spaces(Tail(e.password)) \notin DOMAIN environ

\* The password is to come from a file that yields none.
FileYieldsNone(e, file) ==
    e.password = NoString /\ e.passwordFile # NoString /\ file \in {FileUnopenable, <<>>}

\* C13 (amended): a password file that cannot be opened, or whose first line
\* is empty, never aborts registration - the profile is registered with no
\* password; an env: directive whose variable is not set aborts it - no
\* handle is returned, the profile is removed from the collection and every
\* block of it is released; registration aborts in no other case.
C13_PasswordResolution ==
    [][\A e \in PasswordEntities, environ \in PasswordEnvirons, file \in PasswordFiles :
          LET r == configure_ssl_profile(mem, sslp, config_ssl_profiles, e, environ, file)
              h == Len(sslp')
          IN  (/\ Registers
               /\ mem' = r.mem /\ sslp' = r.sslp
               /\ config_ssl_profiles' = r.config_ssl_profiles)
              => /\ Registered(h) <=> ~EnvMissing(e, environ)
                 /\ FileYieldsNone(e, file) =>
                        Registered(h) /\ sslp'[h].ssl_password = NullPtr
                 /\ EnvMissing(e, environ) =>
                        /\ h \notin Range(config_ssl_profiles')
                        /\ \A a \in DOMAIN mem' :
                              (a[1] = "ssl_profile" /\ a[2] = h) => mem'[a] = FREED
    ]_vars

\* The first registration read its password from a file that gave none and
\* left a profile without a password in the collection; the second named a
\* variable that is not set and was undone: its directive was never
\* replaced, and its object is freed and not in the collection.
C13_Witness ==
    /\ Len(sslp) = 2
    /\ config_ssl_profiles = <<1>>
    /\ ~sslp[1].freed /\ sslp[1].ssl_password = NullPtr
    /\ sslp[2].freed
    /\ sslp[2].ssl_password = <<"ssl_profile", 2, "ssl_password">>
    /\ \A a \in DOMAIN mem : a[2] = 2 => mem[a] = FREED

\* The tokens of a value: the maximal runs of pieces without a delimiter,
\* each as one string.
TokenSet(pieces) ==
    {c_str(SubSeq(pieces, a, b)) :
        <<a, b>> \in {p \in (DOMAIN pieces) \X (DOMAIN pieces) :
                        /\ p[1] <= p[2]
                        /\ \A i \in p[1]..p[2] : pieces[i] # ","
                        /\ (p[1] = 1 \/ pieces[p[1] - 1] = ",")
                        /\ (p[2] = Len(pieces) \/ pieces[p[2] + 1] = ",")}}

\* The vocabulary entries (numbered from 0) whose bit is set in mask.
BitsSet(mask) == {i \in 0..13 : (mask \div 2 ^ i) % 2 = 1}

\* C14: for a comma-separated list, bit i of the mask is set exactly when
\* the i-th entry of the 14-entry vocabulary is a token of the list, so that
\* tokens outside the vocabulary change nothing; the whole string "all" sets
\* every bit; "none", an absent value and the empty string give 0; and
\* is_log_component_enabled(mask, name) is true exactly for the vocabulary
\* names whose bit is set.
C14_LogComponents ==
    [][/\ (log_bits = -1 /\ log_bits' # -1) =>
            /\ log_bits' >= 0
            /\ IF log_message = NoString \/ log_message \in {<<>>, <<"none">>}
               THEN log_bits' = 0
               ELSE IF log_message = <<"all">>
               THEN BitsSet(log_bits') = 0..13
               ELSE /\ BitsSet(log_bits') =
                         {i \in 0..13 : qd_log_message_components[i + 1]
                                           \in TokenSet(log_message)}
                    /\ log_bits' < 2 ^ 14
            /\ log_message = <<"message-id", ",", "to">> => log_bits' = 5
       /\ log_enabled' # log_enabled =>
            log_enabled'[2] =
                (\E i \in BitsSet(log_bits) :
                     qd_log_message_components[i + 1] = log_enabled'[1])
    ]_vars

\* The mask of a list of two vocabulary tokens, of which the first is all
\* that is left in the buffer, has exactly bits 0 and 2, and the query for
\* "to" has answered true.
C14_Witness ==
    /\ log_bits = 5
    /\ log_message = <<"message-id">>
    /\ log_enabled = <<"to", TRUE>>

\* C15: delete_listener closes the accept channel exactly when the listener
\* is accepting, and does so while the listener is still in the collection
\* and the manager's reference is still held; it detaches the listener
\* before it releases the reference, and releases it once; when it returns
\* the listener is not in the collection, and no later start() issues a
\* listen attempt for a listener that is not in the collection.
C15_DeleteListenerOrder ==
    /\ [][\A l \in DOMAIN li :
            /\ (mgmt_pc = "idle" /\ mgmt_pc' = "dl_remove" /\ impl' = l) =>
                  /\ li'[l].closing = (li[l].closing \/ li[l].pn_listener)
                  /\ l \in Range(listeners') /\ li'[l].released = 0
            /\ (li'[l].closing /\ ~li[l].closing) =>
                  /\ li[l].pn_listener
                  /\ l \in Range(listeners') /\ li'[l].released = 0
            /\ (l \in Range(listeners) /\ l \notin Range(listeners')) =>
                  /\ mgmt_pc = "dl_remove" /\ impl = l
                  /\ li'[l] = li[l] /\ li[l].released = 0
                  /\ li[l].pn_listener => li[l].closing
            /\ li'[l].released # li[l].released =>
                  /\ l \notin Range(listeners)
                  /\ li'[l].released = 1
                  /\ mgmt_pc' = "idle"
            /\ (mgmt_pc = "dl_decref" /\ mgmt_pc' = "idle") =>
                  impl \notin Range(listeners')
            /\ l \notin Range(listeners) =>
                  /\ l \notin Range(listeners')
                  /\ li'[l].passes = li[l].passes
                  /\ li'[l].pn_listener => li[l].pn_listener
                  /\ qd_connection_manager_start =>
                        ~ListenCalled(l) /\ li'[l] = li[l]
         ]_vars
    /\ [](\A l \in DOMAIN li :
            li[l].released = 1 => l \notin Range(listeners))

\* A listener that was accepting has been closed, detached and released;
\* start() has run, and exactly one of its passes reached the listener.
C15_Witness ==
    \E l \in DOMAIN li :
        /\ li[l].closing /\ li[l].released = 1
        /\ l \notin Range(listeners)
        /\ mgmt_pc = "idle"
        /\ li[l].passes = 1
        /\ ~first_start /\ proc = "running"

\* The mechanisms of a list: the maximal runs of pieces without a space,
\* each as one string.
MechanismTokens(pieces) ==
    {c_str(SubSeq(pieces, a, b)) :
        <<a, b>> \in {p \in (DOMAIN pieces) \X (DOMAIN pieces) :
                        /\ p[1] <= p[2]
                        /\ \A i \in p[1]..p[2] : pieces[i] # " "
                        /\ (p[1] = 1 \/ pieces[p[1] - 1] = " ")
                        /\ (p[2] = Len(pieces) \/ pieces[p[2] + 1] = " ")}}

\* C16: a resolution that succeeds sets ssl_require_peer_authentication
\* exactly when the saslMechanisms list has the token EXTERNAL, whether or
\* not an sslProfile is named and whether or not it is found; an absent list
\* and a list with EXTERNAL only inside a longer name leave it false.
C16_RequirePeerAuth ==
    [][(Resolves /\ JustResolved.status = "ok") =>
          LET e == JustResolved.entity
          IN  JustResolved.config.ssl_require_peer_authentication
                  = (e.saslMechanisms # NoString
                       /\ "EXTERNAL" \in MechanismTokens(e.saslMechanisms))
    ]_vars

\* The characters of the present parts of the items of list from the k-th
\* on: the scheme and the three of "://" after it, and the host:port.
RECURSIVE PartsTotal(_, _)
PartsTotal(list, k) ==
    IF k > Len(list) THEN 0
    ELSE (IF list[k].scheme # NULL THEN Len(list[k].scheme) + 3 ELSE 0)
         + (IF list[k].host_port # NULL THEN Len(list[k].host_port) ELSE 0)
         + PartsTotal(list, k + 1)

\* C17: for every failover list of the connector, whatever the shape of the
\* items after the first, the length computed in advance is the characters
\* of the present parts (with 3 more for each present scheme), 2 for each
\* separator between items and 1 for the terminator; the serialization
\* with its terminator fills exactly that many bytes and never more.
C17_BufferLength ==
    /\ [](LET n == get_failover_info_length(conn_info_list)
          IN  /\ n = PartsTotal(conn_info_list, 1)
                       + 2 * (Len(conn_info_list) - 1) + 1
              /\ Len(refresh_failover_info(conn_info_list, conn_index)) + 1 <= n)
    /\ [][qd_entity_refresh_connector =>
            /\ failoverUrls' # Garbage
            /\ Len(failoverUrls') + 1 = get_failover_info_length(conn_info_list)
         ]_vars

\* A list of three items, one with neither part, one without a scheme and
\* one without a host:port among them, has been written in full.
C17_Witness ==
    /\ Len(conn_info_list) = 3
    /\ \E k \in 2..3 :
          conn_info_list[k].scheme = NULL /\ conn_info_list[k].host_port = NULL
    /\ failoverUrls # NULL
    /\ failoverUrls = JoinFrom(Rotation(conn_info_list, conn_index), 1)
    /\ Len(failoverUrls) + 1 = get_failover_info_length(conn_info_list)

\* C19: for a list of N >= 1 items and any starting position p >= 1, also
\* p > N, the walk of qd_entity_refresh_connector ends having written
\* exactly the N items, from item ((p-1) mod N)+1 round to the item before
\* it; it changes neither the list nor the starting position, so that the
\* call repeated at once writes the same string.
C19_RefreshTerminates ==
    [][qd_entity_refresh_connector =>
          LET N == Len(conn_info_list)
              p == conn_index
          IN  /\ N >= 1 /\ p >= 1
              /\ failoverUrls' =
                    JoinFrom(Rotation(conn_info_list, ((p - 1) % N) + 1), 1)
              /\ conn_info_list' = conn_info_list
              /\ conn_index' = conn_index
              /\ refresh_outcomes(conn_info_list', conn_index') = {failoverUrls'}
    ]_vars

\* A starting position beyond the end of a list of three different items
\* has been served: position 5 wrote the list from its second item.
C19_Witness ==
    /\ Len(conn_info_list) = 3
    /\ conn_index = 5
    /\ conn_info_list[1] # conn_info_list[2]
    /\ conn_info_list[2] # conn_info_list[3]
    /\ conn_info_list[1] # conn_info_list[3]
    /\ failoverUrls = JoinFrom(<<conn_info_list[2], conn_info_list[3],
                                  conn_info_list[1]>>, 1)

\* The TLS material of the registered profile with handle h.
ProfileMaterial(h) ==
    [f \in Range(TlsFields) |->
        IF sslp[h][ProfileField(f)] = NullPtr THEN NoString
        ELSE mem[sslp[h][ProfileField(f)]]]

NoMaterial == [f \in Range(TlsFields) |-> NoString]

\* The material of the first registered profile called name, none when no
\* name is given or no profile has it.
MaterialNamed(name) ==
    IF name = NoString \/ qd_find_ssl_profile(mem, name) = 0 THEN NoMaterial
    ELSE ProfileMaterial(qd_find_ssl_profile(mem, name))

\* C18: when an endpoint names a registered auth plugin that names a TLS
\* profile, resolution sets use_ssl and fills the TLS slot of the auth
\* channel from the first registered TLS profile of that name, and the
\* endpoint's own TLS slot is what its own sslProfile gives; when the plugin
\* names no TLS profile use_ssl is false.  In every state of the registry,
\* also when the TLS profile the plugin names is not registered, resolution
\* ends with a complete configuration or with a failure.
C18_AuthPluginCascade ==
    [][Resolves =>
          LET c == JustResolved
              e == c.entity
              plugin == IF e.saslPlugin = NoString THEN 0
                        ELSE qd_find_sasl_plugin(mem, e.saslPlugin)
          IN  /\ c.status \in {"ok", "error"}
              /\ c.status = "ok" =>
                    \A f \in Range(TlsFields) :
                        Material(c.config.sasl_plugin_config.tls, mem')[f] # Garbage_block
              /\ plugin # 0 =>
                    /\ c.status = "ok"
                    /\ Material(c.config.tls, mem') = MaterialNamed(e.sslProfile)
                    /\ IF saslp[plugin].auth_ssl_profile # NullPtr
                       THEN /\ c.config.sasl_plugin_config.use_ssl
                            /\ Material(c.config.sasl_plugin_config.tls, mem')
                                 = MaterialNamed(mem[saslp[plugin].auth_ssl_profile])
                       ELSE /\ ~c.config.sasl_plugin_config.use_ssl
                            /\ Material(c.config.sasl_plugin_config.tls, mem') = NoMaterial
    ]_vars
====
